---- MODULE Spec2Model ----
(***************************************************************************)
(* A model of the spectrum analyzer: the AudioAnalyzer session of          *)
(* src/lib/audio.ts (lifecycle, polling, band mapping, pitch detection),   *)
(* the frame loop of components/analyzer/SpectrumAnalyzer.tsx and the      *)
(* AudioFileProcessor of components/analyzer/AudioFileAnalyzer.tsx.        *)
(*                                                                         *)
(* Numbers.  The mappers and the pitch detector compute in IEEE doubles    *)
(* and so does the model (see "JavaScript numbers" below).  Byte buffers   *)
(* are sequences of 0..255, indexed from 1 (JavaScript index i is model    *)
(* index i + 1).                                                           *)
(***************************************************************************)
EXTENDS Integers, Sequences, FiniteSets, TLC

VARIABLES
  \* ---- AudioAnalyzer (src/lib/audio.ts) ----
  audioContext,   \* null or a context [state, sampleRate]
  analyser,       \* null or an analyser node [fftSize]
  mediaStream,    \* null or a stream
  source,         \* null or a source node
  isInitialized,
  isActive,
  fftSize,
  frequencyData,  \* null or the spectrum buffer (bytes)
  timeData,       \* null or the waveform buffer (bytes)
  pending,        \* initialize() calls suspended at `await getUserMedia`
  \* ---- AudioFileProcessor (components/analyzer/AudioFileAnalyzer.tsx) ----
  fileAudioContext,  \* its audioContext: null or a context [sampleRate]
  audioBuffer,       \* null or the decoded file [duration]
  fileAnalyser,      \* its analyser: null or an analyser node [fftSize]
  duration,
  loading,           \* loadAudioFile() calls suspended at their awaits
  fileSource,        \* its source: null or a buffer source [offset, startedAt]
  isPlaying,
  startTime,
  pauseTime,
  contextTime,       \* its audioContext.currentTime, in seconds
  \* ---- AudioFileAnalyzer component (same file) ----
  file,              \* whether a file has been selected
  isLoading,
  error,             \* whether an error message is shown
  uiIsPlaying,       \* the isPlaying state of the component
  progress,
  \* ---- SpectrumAnalyzer component (components/analyzer/SpectrumAnalyzer.tsx) ----
  mode,
  spectrumData,
  spectrogramHistory,
  pitch,
  lastPitchDetectionTime,
  frameTime,      \* performance.now() at the last frame
  pitchDetectedAt,  \* history: performance.now() at the last frame that
                    \* called detectPitch(), 0 before the first
  \* ---- observation ----
  probe,          \* null or the input the pitch detector is applied to
  lastOp,         \* the last completed call and what it returned
  disposal        \* history: "none" until dispose() is called, "disposed"
                  \* from then on, "reinitialized" once initialize() has
                  \* run after it

sessVars == <<audioContext, analyser, mediaStream, source, isInitialized,
              isActive, fftSize, frequencyData, timeData, pending>>
playVars == <<fileSource, isPlaying, startTime, pauseTime, contextTime>>
playVarsButClock == <<fileSource, isPlaying, startTime, pauseTime>>
uiVars == <<file, isLoading, error, uiIsPlaying, progress>>
fileVars == <<fileAudioContext, audioBuffer, fileAnalyser, duration, loading,
              playVars, uiVars>>
viewVars == <<mode, spectrumData, spectrogramHistory, pitch,
              lastPitchDetectionTime, frameTime, pitchDetectedAt>>

vars == <<sessVars, fileVars, viewVars, probe, lastOp, disposal>>

\* A nullable field is NULL or Some(v); Get reads the value of a non-null one.
NULL == <<>>
Some(v) == <<v>>
Get(x) == x[1]

(***************************************************************************)
(* Bounds of the model.                                                    *)
(***************************************************************************)
\* getNormalizedSpectrum is called with bands in 1..MaxBands.
MaxBands == 4
\* At most this many initialize() calls are suspended at their await at once.
MaxPending == 1
\* The session is constructed with fftSize = 2^InitFFTLog2.  The code's
\* default is 8192 = 2^13 (audio.ts line 16); the model scales the transform
\* down so that the buffers (fftSize / 2 bytes) stay small.
InitFFTLog2 == 6
\* loadAudioFile gives its analyser fftSize = 2^FileFFTLog2.  The code's size
\* is 2048 = 2^11 (AudioFileAnalyzer.tsx line 38), scaled down likewise.
FileFFTLog2 == 6
\* The file processor's clock (audioContext.currentTime) runs from 0 to
\* MaxClock seconds.
MaxClock == 4
\* The spectrogram keeps the last HistoryLength frames.  The code keeps 50
\* (SpectrumAnalyzer.tsx line 130).
HistoryLength == 2

(***************************************************************************)
(* Integer helpers.                                                        *)
(***************************************************************************)
Min(a, b) == IF a <= b THEN a ELSE b
Max(a, b) == IF a >= b THEN a ELSE b

RECURSIVE Pow2(_)
Pow2(k) == IF k = 0 THEN 1 ELSE 2 * Pow2(k - 1)

\* JavaScript's a & b on 32-bit integers (two's complement; \div and % floor).
RECURSIVE BitAnd(_, _)
BitAnd(a, b) ==
  IF a = 0 \/ b = 0 THEN 0
  ELSE IF a = -1 THEN b
  ELSE IF b = -1 THEN a
  ELSE (a % 2) * (b % 2) + 2 * BitAnd(a \div 2, b \div 2)

Zeros(n) == [i \in 1..n |-> 0]

(***************************************************************************)
(* JavaScript numbers.  The mappers compute in IEEE 754 doubles: every     *)
(* operation returns the double nearest to the exact result, ties to the   *)
(* even significand.  A double >= 0 is modelled as <<m, e>>, the value     *)
(* m * 2^e with the significand m a natural number of exactly 53 bits, or  *)
(* as <<<<>>, 0>> for zero.  Significands do not fit a machine integer:    *)
(* they are sequences of limbs in base 2^15, least significant first,      *)
(* without leading zero limbs.                                             *)
(***************************************************************************)
LimbBase == 2^15

RECURSIVE BigFromInt(_)
BigFromInt(n) ==
  IF n = 0 THEN <<>> ELSE <<n % LimbBase>> \o BigFromInt(n \div LimbBase)

RECURSIVE BigToInt(_)
BigToInt(a) ==
  IF Len(a) = 0 THEN 0 ELSE a[1] + LimbBase * BigToInt(Tail(a))

RECURSIVE BigTrim(_)
BigTrim(a) ==
  IF Len(a) > 0 /\ a[Len(a)] = 0 THEN BigTrim(SubSeq(a, 1, Len(a) - 1)) ELSE a

BigLimb(a, i) == IF i <= Len(a) THEN a[i] ELSE 0

\* a + b + c from limb i on (c is the carry into limb i).
RECURSIVE BigAddFrom(_, _, _, _)
BigAddFrom(a, b, i, c) ==
  IF i > Len(a) /\ i > Len(b)
    THEN IF c = 0 THEN <<>> ELSE <<c>>
    ELSE LET s == BigLimb(a, i) + BigLimb(b, i) + c
         IN <<s % LimbBase>> \o BigAddFrom(a, b, i + 1, s \div LimbBase)

BigAdd(a, b) == BigAddFrom(a, b, 1, 0)

\* a - b - c from limb i on, for a >= b (c is the borrow out of limb i - 1).
RECURSIVE BigSubFrom(_, _, _, _)
BigSubFrom(a, b, i, c) ==
  IF i > Len(a) THEN <<>>
  ELSE LET s == a[i] - BigLimb(b, i) - c
       IN <<s % LimbBase>> \o BigSubFrom(a, b, i + 1, IF s < 0 THEN 1 ELSE 0)

BigSub(a, b) == BigTrim(BigSubFrom(a, b, 1, 0))

\* -1, 0 or 1 as a < b, a = b or a > b; limbs i..1 decide when the higher agree.
RECURSIVE BigCmpFrom(_, _, _)
BigCmpFrom(a, b, i) ==
  IF i = 0 THEN 0
  ELSE IF a[i] < b[i] THEN -1
  ELSE IF a[i] > b[i] THEN 1
  ELSE BigCmpFrom(a, b, i - 1)

BigCmp(a, b) ==
  IF Len(a) < Len(b) THEN -1
  ELSE IF Len(a) > Len(b) THEN 1
  ELSE BigCmpFrom(a, b, Len(a))

\* a * k + c from limb i on, for a limb k.
RECURSIVE BigMulLimbFrom(_, _, _, _)
BigMulLimbFrom(a, k, i, c) ==
  IF i > Len(a)
    THEN IF c = 0 THEN <<>> ELSE <<c>>
    ELSE LET s == a[i] * k + c
         IN <<s % LimbBase>> \o BigMulLimbFrom(a, k, i + 1, s \div LimbBase)

BigMulLimb(a, k) == IF k = 0 THEN <<>> ELSE BigMulLimbFrom(a, k, 1, 0)

\* a * LimbBase^n.
BigShiftLimbs(a, n) == IF Len(a) = 0 THEN <<>> ELSE [i \in 1..n |-> 0] \o a

\* a * (limbs j.. of b).
RECURSIVE BigMulFrom(_, _, _)
BigMulFrom(a, b, j) ==
  IF j > Len(b) THEN <<>>
  ELSE BigAdd(BigMulLimb(a, b[j]),
              BigShiftLimbs(BigMulFrom(a, b, j + 1), 1))

BigMul(a, b) == BigMulFrom(a, b, 1)

\* floor(a / k) for a limb k > 0, from limb i down with remainder r.
RECURSIVE BigDivLimbFrom(_, _, _, _)
BigDivLimbFrom(a, k, i, r) ==
  IF i = 0 THEN <<>>
  ELSE LET s == r * LimbBase + a[i]
       IN BigDivLimbFrom(a, k, i - 1, s % k) \o <<s \div k>>

\* a * 2^s and floor(a / 2^s).
BigShl(a, s) ==
  BigShiftLimbs(BigMulLimb(a, 2^(s % 15)), s \div 15)
BigShr(a, s) ==
  IF s \div 15 >= Len(a) THEN <<>>
  ELSE LET hi == SubSeq(a, (s \div 15) + 1, Len(a))
       IN BigTrim(BigDivLimbFrom(hi, 2^(s % 15), Len(hi), 0))

RECURSIVE BitLen(_)
BitLen(n) == IF n = 0 THEN 0 ELSE 1 + BitLen(n \div 2)

BigBitLen(a) ==
  IF Len(a) = 0 THEN 0 ELSE 15 * (Len(a) - 1) + BitLen(a[Len(a)])

BigOdd(a) == Len(a) > 0 /\ a[1] % 2 = 1

DZero == <<<<>>, 0>>
DIsZero(x) == Len(x[1]) = 0

\* The double nearest to big * 2^e, or to a value just above it when sticky
\* (a quotient with a non-zero remainder): round to nearest, ties to even.
\* q is the significand cut to 53 bits and c compares what was cut off with
\* half a unit of q.
RoundUp(q, c, sticky) ==
  IF c > 0 \/ (c = 0 /\ (sticky \/ BigOdd(q))) THEN BigAdd(q, <<1>>) ELSE q

Renormalised(q, e) ==
  IF BigBitLen(q) = 54 THEN <<BigShr(q, 1), e + 1>> ELSE <<q, e>>

RoundShifted(big, e, sticky, s, q) ==
  Renormalised(RoundUp(q, BigCmp(BigSub(big, BigShl(q, s)),
                                 BigShl(<<1>>, s - 1)), sticky),
               e + s)

RoundToLen(big, e, sticky, len) ==
  IF len = 0 THEN DZero
  ELSE IF len <= 53 THEN <<BigShl(big, 53 - len), e - (53 - len)>>
  ELSE RoundShifted(big, e, sticky, len - 53, BigShr(big, len - 53))

RoundToDouble(big, e, sticky) == RoundToLen(big, e, sticky, BigBitLen(big))

\* The number n >= 0 as a double, and the double nearest to n / d.
DFromInt(n) == RoundToDouble(BigFromInt(n), 0, FALSE)

\* x + y, x - y (for x >= y), x * y.
DAdd(x, y) ==
  IF DIsZero(x) THEN y
  ELSE IF DIsZero(y) THEN x
  ELSE LET e == Min(x[2], y[2])
       IN RoundToDouble(BigAdd(BigShl(x[1], x[2] - e), BigShl(y[1], y[2] - e)),
                        e, FALSE)
DSub(x, y) ==
  IF DIsZero(y) THEN x
  ELSE LET e == Min(x[2], y[2])
       IN RoundToDouble(BigSub(BigShl(x[1], x[2] - e), BigShl(y[1], y[2] - e)),
                        e, FALSE)
DMul(x, y) ==
  IF DIsZero(x) \/ DIsZero(y) THEN DZero
  ELSE RoundToDouble(BigMul(x[1], y[1]), x[2] + y[2], FALSE)

\* One limb of a quotient, for r < d and the top limb of d at least
\* LimbBase / 2: <<floor(r * LimbBase / d), the remainder>>, computed on
\* r1 = r * LimbBase.  The estimate from the leading limbs is at most 2 too
\* large.
BigDivEstimate(r1, d, n) ==
  Min(LimbBase - 1,
      (BigLimb(r1, n + 1) * LimbBase + BigLimb(r1, n)) \div d[n])

BigDivDigit(r1, d, est) ==
  IF BigCmp(BigMulLimb(d, est), r1) <= 0 THEN est
  ELSE IF BigCmp(BigMulLimb(d, est - 1), r1) <= 0 THEN est - 1
  ELSE est - 2

BigDivRemainder(r1, d, q) == <<q, BigSub(r1, BigMulLimb(d, q))>>

BigDivShifted(r1, d) ==
  BigDivRemainder(r1, d, BigDivDigit(r1, d, BigDivEstimate(r1, d, Len(d))))

BigDivStep(r, d) == BigDivShifted(BigShiftLimbs(r, 1), d)

\* <<floor(r * LimbBase^n / d), the remainder>> for r < d: one limb, then
\* the limbs below it from the remainder that limb left (the singleton set
\* makes TLC compute the limb before it goes on).
RECURSIVE BigDivLimbs(_, _, _)
BigDivAppend(digit, rest) == <<rest[1] \o <<digit>>, rest[2]>>

BigDivAfter(s, d, n) == BigDivAppend(s[1], BigDivLimbs(s[2], d, n))

BigDivLimbs(r, d, n) ==
  IF n = 0 THEN <<<<>>, r>>
  ELSE CHOOSE qr \in { BigDivAfter(s, d, n - 1) : s \in {BigDivStep(r, d)} } :
         TRUE

\* x / y for y > 0: the quotient of the significands to 60 binary places
\* and whether anything is left, rounded once.
DDivRounded(qr, lead, e) ==
  RoundToDouble(BigTrim(qr[1] \o <<lead>>), e, Len(qr[2]) > 0)

DDivScaled(n, d, e) ==
  IF BigCmp(n, d) >= 0
    THEN DDivRounded(BigDivLimbs(BigSub(n, d), d, 4), 1, e)
    ELSE DDivRounded(BigDivLimbs(n, d, 4), 0, e)

DDiv(x, y) ==
  IF DIsZero(x) THEN DZero
  ELSE DDivScaled(BigShl(x[1], 7), BigShl(y[1], 7), x[2] - y[2] - 60)

\* x < y, x <= y, Math.min and Math.max.
DLess(x, y) ==
  IF DIsZero(y) THEN FALSE
  ELSE IF DIsZero(x) THEN TRUE
  ELSE x[2] < y[2] \/ (x[2] = y[2] /\ BigCmp(x[1], y[1]) < 0)
DLeq(x, y) == ~DLess(y, x)
DMin(x, y) == IF DLess(y, x) THEN y ELSE x
DMax(x, y) == IF DLess(x, y) THEN y ELSE x

\* Math.floor and Math.ceil of a double, as integers.
DFloor(x) ==
  IF DIsZero(x) THEN 0
  ELSE IF x[2] >= 0 THEN BigToInt(BigShl(x[1], x[2]))
  ELSE BigToInt(BigShr(x[1], -x[2]))
DIsInt(x) ==
  DIsZero(x) \/ x[2] >= 0
    \/ Len(BigSub(x[1], BigShl(BigShr(x[1], -x[2]), -x[2]))) = 0
DCeil(x) == IF DIsInt(x) THEN DFloor(x) ELSE DFloor(x) + 1

\* Math.round: floor(x + 0.5) computed exactly.
DRound(x) ==
  IF DIsZero(x) THEN 0
  ELSE IF x[2] >= 0 THEN DFloor(x)
  ELSE LET twice == BigShr(x[1], -x[2] - 1) IN (BigToInt(twice) + 1) \div 2

(***************************************************************************)
(* AudioAnalyzer.detectPitch, lines 169-204: the autocorrelation of the    *)
(* waveform and the search for its peak.                                   *)
(***************************************************************************)
\* Storing v in a Float32Array: the nearest value with a 24-bit significand,
\* ties to the even significand (line 172, line 180).
RECURSIVE Ulp32(_, _)
Ulp32(a, u) == IF a < 16777216 * u THEN u ELSE Ulp32(a, 2 * u)

Fround(v) ==
  LET a == IF v < 0 THEN -v ELSE v
      u == Ulp32(a, 1)
      q == a \div u
      r == a % u
      up == (2 * r > u) \/ (2 * r = u /\ q % 2 = 1)
      m == (IF up THEN q + 1 ELSE q) * u
  IN IF v < 0 THEN -m ELSE m

\* The inner loop of lines 177-179 over i in lo..hi (JavaScript indices):
\* the sum of (timeData[i] - 128) * (timeData[i + lag] - 128).
RECURSIVE correlationLoop(_, _, _, _)
correlationLoop(td, lag, lo, hi) ==
  IF lo > hi THEN 0
  ELSE IF lo = hi THEN (td[lo + 1] - 128) * (td[lo + lag + 1] - 128)
  ELSE LET mid == (lo + hi) \div 2
       IN correlationLoop(td, lag, lo, mid)
          + correlationLoop(td, lag, mid + 1, hi)

\* correlations[lag] as read back from the Float32Array (lines 175-181).
correlations(td, lag) ==
  Fround(correlationLoop(td, lag, 0, Len(td) - lag - 1))

\* One iteration of the peak search, lines 191-194, on <<maxCorrelation, maxLag>>.
peakStep(td, lag, st) ==
  LET c == correlations(td, lag)
  IN IF c > st[1] THEN <<c, lag>> ELSE st

\* The loop of lines 190-195 over lag in lo..hi, in order: the first half of
\* the range, then the second half from the state the first half left (the
\* singleton set makes TLC compute that state before it goes on).
RECURSIVE peakLoop(_, _, _, _)
peakLoop(td, lo, hi, st) ==
  IF lo > hi THEN st
  ELSE IF lo = hi THEN peakStep(td, lo, st)
  ELSE LET mid == (lo + hi) \div 2
       IN CHOOSE r \in { peakLoop(td, mid + 1, hi, half) :
                           half \in {peakLoop(td, lo, mid, st)} } : TRUE

\* maxLag after the search: minPeriod = sampleRate / 1000 (line 188), the
\* search starts at Math.floor(minPeriod) with maxCorrelation = maxLag = -1.
maxLagOf(td, sampleRate) ==
  peakLoop(td, sampleRate \div 1000, Len(td) - 1, <<-1, -1>>)[2]

\* Lines 197-204: 0 when no peak was found, else sampleRate / maxLag.
pitchOf(td, sampleRate) ==
  LET maxLag == maxLagOf(td, sampleRate)
  IN IF maxLag <= 0 THEN DZero ELSE DDiv(DFromInt(sampleRate), DFromInt(maxLag))

(***************************************************************************)
(* AudioAnalyzer.getNormalizedSpectrum, lines 295-323.                     *)
(***************************************************************************)
minDisplayFreq == 20
maxDisplayFreq == 20000

\* freqPerBin = sampleRate / 2 / binCount (line 306; lines 218 and 223
\* compute the same value as nyquist / binCount).
freqPerBin(sampleRate, binCount) ==
  DDiv(DDiv(DFromInt(sampleRate), DFromInt(2)), DFromInt(binCount))

\* freqForBand of lines 311-312, for bands >= 2.
freqForBand(bands, i) ==
  DAdd(DFromInt(minDisplayFreq),
       DMul(DDiv(DFromInt(i), DFromInt(bands - 1)),
            DFromInt(maxDisplayFreq - minDisplayFreq)))

\* binIndex = Math.round(freqForBand / freqPerBin) (line 315), for bands >= 2.
\* Variant: the bin index wrapped into the buffer instead of range-checked.
binIndexWrapped(binCount, sampleRate, bands, i) ==
  DRound(DDiv(freqForBand(bands, i), freqPerBin(sampleRate, binCount)))
    % binCount

\* Variant: the quotient truncated instead of rounded.
binIndexTruncated(binCount, sampleRate, bands, i) ==
  DFloor(DDiv(freqForBand(bands, i), freqPerBin(sampleRate, binCount)))

binIndex(binCount, sampleRate, bands, i) ==
  DRound(DDiv(freqForBand(bands, i), freqPerBin(sampleRate, binCount)))

\* result[i] (lines 309-321).  With bands = 1 the quotient i / (bands - 1) is
\* 0 / 0 = NaN, so binIndex is NaN, both comparisons of line 318 are false
\* and the band keeps its initial 0.
bandAt(freqData, bi) ==
  IF bi >= 0 /\ bi < Len(freqData) THEN freqData[bi + 1] ELSE 0

normalizedBand(freqData, sampleRate, bands, i) ==
  IF bands = 1 THEN 0
  ELSE bandAt(freqData, binIndex(Len(freqData), sampleRate, bands, i))

\* Variant: the raw spectrum handed back as it is, one value per raw bin.
normalizedSpectrumPerBin(freqData, sampleRate, bands) ==
  [k \in 1..Len(freqData) |-> freqData[k]]

normalizedSpectrum(freqData, sampleRate, bands) ==
  [k \in 1..bands |-> normalizedBand(freqData, sampleRate, bands, k - 1)]

(***************************************************************************)
(* AudioAnalyzer.getCustomFrequencyData, lines 217-281.  The returned      *)
(* values are doubles.                                                     *)
(***************************************************************************)
\* exactBinIndex = targetFreq / freqPerBin, its floor and its ceiling
\* (lines 229-231).
exactBinIndex(binCount, sampleRate, targetFreq) ==
  DDiv(DFromInt(targetFreq), freqPerBin(sampleRate, binCount))
lowerBinIndex(binCount, sampleRate, targetFreq) ==
  DFloor(exactBinIndex(binCount, sampleRate, targetFreq))
upperBinIndex(binCount, sampleRate, targetFreq) ==
  DCeil(exactBinIndex(binCount, sampleRate, targetFreq))

\* The linear interpolation of line 240.
interpolate(lowerValue, upperValue, fraction) ==
  DAdd(DMul(DFromInt(lowerValue), DSub(DFromInt(1), fraction)),
       DMul(DFromInt(upperValue), fraction))

\* range of line 250: Math.ceil(5 * (1 - targetFreq / 1000)), targetFreq < 1000.
lowRange(targetFreq) ==
  DCeil(DMul(DFromInt(5),
             DSub(DFromInt(1), DDiv(DFromInt(targetFreq), DFromInt(1000)))))

\* One pass of the loop body, lines 253-260, with weight w, on
\* st = <<sum, weight>>.
weightedStep(freqData, lIndex, uIndex, w, st) ==
  <<DAdd(st[1], DAdd(DMul(DFromInt(freqData[lIndex + 1]), w),
                     DMul(DFromInt(freqData[uIndex + 1]), w))),
    DAdd(st[2], DMul(w, DFromInt(2)))>>

\* The loop of lines 252-261 from j on.
RECURSIVE weightedLoop(_, _, _, _, _, _)
weightedLoop(freqData, lo, up, range, j, st) ==
  IF j > range THEN st
  ELSE weightedLoop(freqData, lo, up, range, j + 1,
                    weightedStep(freqData, Max(0, lo - j),
                                 Min(Len(freqData) - 1, up + j),
                                 DDiv(DFromInt(range - j + 1),
                                      DFromInt(range + 1)),
                                 st))

\* sum / weight of line 264.
quotient(st) == DDiv(st[1], st[2])
weightedAverage(freqData, lo, up, range, value) ==
  quotient(weightedLoop(freqData, lo, up, range, 1, <<value, DFromInt(1)>>))

\* Lines 268-269: boost = 1.2 + (1 - targetFreq / 100) * 0.8 and
\* Math.min(255, value * boost), targetFreq < 100.  The literals 1.2 and 0.8
\* are the doubles nearest to 6/5 and 4/5.
boost(targetFreq) ==
  DAdd(DDiv(DFromInt(6), DFromInt(5)),
       DMul(DSub(DFromInt(1), DDiv(DFromInt(targetFreq), DFromInt(100))),
            DDiv(DFromInt(4), DFromInt(5))))
boosted(value, targetFreq) ==
  DMin(DFromInt(255), DMul(value, boost(targetFreq)))

\* Lines 266-270: the boost of the averaged value below 100 Hz.
lowBoosted(average, targetFreq) ==
  IF targetFreq < 100 THEN boosted(average, targetFreq) ELSE average

\* Lines 244-271: the smoothing of the interpolated value below 1000 Hz.
smoothed(freqData, lo, up, targetFreq, value) ==
  IF targetFreq < 1000
    THEN lowBoosted(weightedAverage(freqData, lo, up, lowRange(targetFreq),
                                    value), targetFreq)
    ELSE value

\* Lines 233-277 for the bins lo and up around the exact index.
valueBetween(freqData, lo, up, exact, targetFreq) ==
  IF lo >= 0 /\ up < Len(freqData)
    THEN smoothed(freqData, lo, up, targetFreq,
                  interpolate(freqData[lo + 1], freqData[up + 1],
                              DSub(exact, DFromInt(lo))))
  ELSE IF lo < 0 THEN DFromInt(freqData[1])
  ELSE DFromInt(freqData[Len(freqData)])

\* Lines 230-277 for the exact index.
valueAt(freqData, exact, targetFreq) ==
  valueBetween(freqData, DFloor(exact), DCeil(exact), exact, targetFreq)

\* result[i] for one target frequency (lines 226-278).
customValue(freqData, sampleRate, targetFreq) ==
  valueAt(freqData, exactBinIndex(Len(freqData), sampleRate, targetFreq),
          targetFreq)

customFrequencyData(freqData, sampleRate, points) ==
  [k \in 1..Len(points) |->
     customValue(freqData, sampleRate, points[k])]

(***************************************************************************)
(* AudioFileProcessor.getNormalizedSpectrum, AudioFileAnalyzer.tsx lines   *)
(* 140-170: the bins from 20 Hz to 20 kHz are distributed over the bands   *)
(* on a logarithmic axis, each band keeping the maximum of its bins.       *)
(***************************************************************************)
maxFreq == 20000
lowestFreq == 20

\* binFreq = sampleRate / fftSize (line 146) and freq = i * binFreq (line 152).
binFreq(sampleRate, size) == DDiv(DFromInt(sampleRate), DFromInt(size))
freqOfBin(sampleRate, size, i) == DMul(DFromInt(i), binFreq(sampleRate, size))

\* maxBin of line 147.
maxBin(sampleRate, size, length) ==
  Min(DFloor(DDiv(DFromInt(maxFreq), binFreq(sampleRate, size))), length)

RECURSIVE BigPow(_, _)
BigPow(a, n) == IF n = 0 THEN <<1>> ELSE BigMul(a, BigPow(a, n - 1))

(***************************************************************************)
(* Math.log10.  The language leaves the accuracy of Math.log10 to the      *)
(* engine; it is modelled as V8 computes it, with the log10 and log of     *)
(* fdlibm on doubles, every operation rounded.  Intermediate values can be *)
(* negative: a signed double is <<neg, d>> with d a double >= 0.           *)
(***************************************************************************)
SAdd(a, b) ==
  IF a[1] = b[1] THEN <<a[1], DAdd(a[2], b[2])>>
  ELSE IF DLess(a[2], b[2]) THEN <<b[1], DSub(b[2], a[2])>>
  ELSE <<a[1], DSub(a[2], b[2])>>
SSub(a, b) == SAdd(a, <<~b[1], b[2]>>)
SMul(a, b) == <<a[1] # b[1], DMul(a[2], b[2])>>
SDiv(a, b) == <<a[1] # b[1], DDiv(a[2], b[2])>>

\* The double >= 0 with unbiased exponent expo whose 52 fraction bits are
\* hi (20 bits), mid (16 bits) and lo (16 bits): the words of its encoding.
DBits(expo, hi, mid, lo) ==
  <<BigAdd(BigShl(BigFromInt(2^20 + hi), 32),
           BigAdd(BigShl(BigFromInt(mid), 16), BigFromInt(lo))),
    expo - 52>>

\* The top 20 fraction bits of a double > 0 (its high word & 0x000fffff) and
\* its unbiased exponent.
highFraction(x) == BigToInt(BigShr(x[1], 32)) - 2^20
exponentOf(x) == x[2] + 52

\* The constants of fdlibm's log and log10.
ln2_hi == <<FALSE, DBits(-1, 405058, 65248, 0)>>
ln2_lo == <<FALSE, DBits(-33, 670191, 13689, 15478)>>
Lg1 == <<FALSE, DBits(-1, 349525, 21845, 21907)>>
Lg2 == <<FALSE, DBits(-2, 629145, 39319, 64004)>>
Lg3 == <<FALSE, DBits(-2, 149796, 37922, 37721)>>
Lg4 == <<FALSE, DBits(-3, 815557, 7566, 30895)>>
Lg5 == <<FALSE, DBits(-3, 476772, 38603, 990)>>
Lg6 == <<FALSE, DBits(-3, 236041, 53368, 50847)>>
Lg7 == <<FALSE, DBits(-3, 192786, 57150, 21060)>>
ivln10 == <<FALSE, DBits(-2, 772987, 5414, 58638)>>
log10_2hi == <<FALSE, DBits(-2, 214035, 20639, 24576)>>
log10_2lo == <<FALSE, DBits(-42, 655091, 4593, 11062)>>
SOne == <<FALSE, DFromInt(1)>>
STwo == <<FALSE, DFromInt(2)>>
SHalf == <<FALSE, DBits(-1, 0, 0, 0)>>
SThird == <<FALSE, DBits(-2, 349525, 21845, 21845)>>

\* t1 = w*(Lg2+w*(Lg4+w*Lg6)), t2 = z*(Lg1+w*(Lg3+w*(Lg5+w*Lg7))) and
\* R = t2 + t1.
logT1(w) == SMul(w, SAdd(Lg2, SMul(w, SAdd(Lg4, SMul(w, Lg6)))))
logT2(z, w) ==
  SMul(z, SAdd(Lg1, SMul(w, SAdd(Lg3, SMul(w, SAdd(Lg5, SMul(w, Lg7)))))))
logR(z) == SAdd(logT2(z, SMul(z, z)), logT1(SMul(z, z)))

\* The results of log for x = 2^k * (1 + f), dk = k, by the branches of
\* fdlibm: |f| < 2^-20 (logSmall), the fraction between 0x6147a and 0x6b851
\* (logMiddle), and the others (logOuter).
logSmallR(f) == SMul(SMul(f, f), SSub(SHalf, SMul(SThird, f)))

logSmall(f, k, dk) ==
  IF DIsZero(f[2])
    THEN IF k = 0 THEN <<FALSE, DZero>>
         ELSE SAdd(SMul(dk, ln2_hi), SMul(dk, ln2_lo))
    ELSE IF k = 0 THEN SSub(f, logSmallR(f))
         ELSE SSub(SMul(dk, ln2_hi),
                   SSub(SSub(logSmallR(f), SMul(dk, ln2_lo)), f))

logMiddle(f, s, R, hfsq, k, dk) ==
  IF k = 0 THEN SSub(f, SSub(hfsq, SMul(s, SAdd(hfsq, R))))
  ELSE SSub(SMul(dk, ln2_hi),
            SSub(SSub(hfsq, SAdd(SMul(s, SAdd(hfsq, R)), SMul(dk, ln2_lo))),
                 f))

logOuter(f, s, R, k, dk) ==
  IF k = 0 THEN SSub(f, SMul(s, SSub(f, R)))
  ELSE SSub(SMul(dk, ln2_hi),
            SSub(SSub(SMul(s, SSub(f, R)), SMul(dk, ln2_lo)), f))

logLarge(f, s, hx, k, dk) ==
  IF hx - 398458 >= 0 /\ 440401 - hx >= 0
       /\ (hx - 398458 > 0 \/ 440401 - hx > 0)
    THEN logMiddle(f, s, logR(SMul(s, s)), SMul(SMul(SHalf, f), f), k, dk)
    ELSE logOuter(f, s, logR(SMul(s, s)), k, dk)

logOfReduced(f, hx, k) ==
  IF BitAnd(1048575, 2 + hx) < 3
    THEN logSmall(f, k, <<FALSE, DFromInt(k)>>)
    ELSE logLarge(f, SDiv(f, SAdd(STwo, f)), hx, k, <<FALSE, DFromInt(k)>>)

\* fdlibm's log for a double x in [1, 2): k is 1 when x is halved to bring
\* it below sqrt(2) (the fraction bits hx from 0x6a09c on), and f = x - 1.
logHalved(hx) == BitAnd(hx + 614244, 1048576) \div 1048576

DLog(x) ==
  logOfReduced(SSub(<<FALSE, <<x[1], -52 - logHalved(highFraction(x))>>>>,
                    SOne),
               highFraction(x), logHalved(highFraction(x)))

\* Math.log10(x) for a double x >= 1: with y the exponent of x and m its
\* significand in [1, 2), z = y * log10_2lo + ivln10 * log(m) and the result
\* z + y * log10_2hi.
DLog10Of(x, y) ==
  SAdd(SAdd(SMul(y, log10_2lo), SMul(ivln10, DLog(x))), SMul(y, log10_2hi))[2]

DLog10(x) ==
  IF x = DFromInt(1) THEN DZero
  ELSE DLog10Of(x, <<FALSE, DFromInt(exponentOf(x))>>)

\* Math.log10(maxFreq / 20) of line 159.
logOfRange == DLog10(DDiv(DFromInt(maxFreq), DFromInt(lowestFreq)))

\* bandIndex of lines 158-161 for a bin of frequency freq >= 20.
bandIndex(bands, freq) ==
  Min(DFloor(DDiv(DMul(DFromInt(bands),
                       DLog10(DDiv(freq, DFromInt(lowestFreq)))),
                  logOfRange)),
      bands - 1)

\* The band that bin i is assigned to, or -1 for a bin below 20 Hz, which
\* line 155 skips.
bandOfFreq(bands, freq) ==
  IF DLess(freq, DFromInt(lowestFreq)) THEN -1 ELSE bandIndex(bands, freq)

bandOfBin(sampleRate, size, bands, i) ==
  bandOfFreq(bands, freqOfBin(sampleRate, size, i))

\* The band of each bin the loop of lines 151-168 visits: entry i + 1 is
\* that of bin i, for i < n.
bandsOfBins(sampleRate, size, bands, n) ==
  [k \in 1..n |-> bandOfBin(sampleRate, size, bands, k - 1)]

\* result[band] after the loop: Math.max over 0 and the bytes of the bins
\* assigned to the band (line 166).
bandMaximum(freqData, assigned, band) ==
  LET values == {0} \cup { freqData[k] : k \in { j \in 1..Len(assigned) :
                                                  assigned[j] = band } }
  IN CHOOSE m \in values : \A v \in values : v <= m

fileNormalizedSpectrum(freqData, sampleRate, size, bands) ==
  LET assigned == bandsOfBins(sampleRate, size, bands,
                              maxBin(sampleRate, size, Len(freqData)))
  IN [k \in 1..bands |-> bandMaximum(freqData, assigned, k - 1)]

(***************************************************************************)
(* The frame loop of SpectrumAnalyzer.tsx, lines 146-192: the display      *)
(* values at the fixed frequency points, read from the 10000 bands of      *)
(* getNormalizedSpectrum.                                                  *)
(***************************************************************************)
frequencyPoints ==
  <<20, 30, 40, 50, 60, 75, 90, 110, 130, 160, 190, 220, 260, 300, 350, 400,
    450, 500, 550, 600, 650, 700, 800, 900, 1000, 1200, 1400, 1600, 1800,
    2000, 2500, 3000, 3500, 4000, 5000, 6000, 7000, 8000, 9000, 10000, 12000,
    14000, 16000, 20000>>

numRawDataBands == 10000
displaySampleRate == 44100
refineBelow == 2000

\* binWidth = nyquist / numRawDataBands (lines 155-158), as an operator so
\* that it is computed where it is used.
binWidth(bandCount) ==
  DDiv(DDiv(DFromInt(displaySampleRate), DFromInt(2)), DFromInt(bandCount))

\* index of line 165.
displayIndex(bandCount, targetFreq) ==
  DFloor(DDiv(DFromInt(targetFreq), binWidth(bandCount)))

\* rawData[index] * 0.8 (lines 180-181); 0.8 is the double nearest to 4/5.
attenuated(v) == DMul(DFromInt(v), DDiv(DFromInt(4), DFromInt(5)))

\* Variant: the maximum of the three bands, the neighbours at full weight.
refinedUnweighted(value, prevValue, nextValue) ==
  DFromInt(Max(Max(value, prevValue), nextValue))

\* Math.max(newData[i], rawData[prevIndex] * 0.8, rawData[nextIndex] * 0.8)
\* of lines 177-181, on the three bands read.
refined(value, prevValue, nextValue) ==
  DMax(DMax(DFromInt(value), attenuated(prevValue)), attenuated(nextValue))

\* newData[i] for one frequency point and its index (lines 167-190); band k
\* of rawData is band k of the array getNormalizedSpectrum(bandCount)
\* returned for the spectrum freqData.
displayValueAt(freqData, sampleRate, bandCount, targetFreq, index) ==
  IF index >= 0 /\ index < bandCount
    THEN IF targetFreq < refineBelow
           THEN refined(normalizedBand(freqData, sampleRate, bandCount, index),
                        normalizedBand(freqData, sampleRate, bandCount,
                                       Max(0, index - 1)),
                        normalizedBand(freqData, sampleRate, bandCount,
                                       Min(bandCount - 1, index + 1)))
           ELSE DFromInt(normalizedBand(freqData, sampleRate, bandCount,
                                        index))
    ELSE DFromInt(normalizedBand(freqData, sampleRate, bandCount,
                                 Min(Max(0, index), bandCount - 1)))

\* newData[i] for one frequency point (lines 161-191).
displayValue(freqData, sampleRate, bandCount, targetFreq) ==
  displayValueAt(freqData, sampleRate, bandCount, targetFreq,
                 displayIndex(bandCount, targetFreq))

\* newData of lines 151-192 when getNormalizedSpectrum(10000) read the
\* spectrum freqData of a context running at sampleRate.
displayData(freqData, sampleRate) ==
  [i \in 1..Len(frequencyPoints) |->
     displayValue(freqData, sampleRate, numRawDataBands, frequencyPoints[i])]

(***************************************************************************)
(* The environment: what the browser and the analyser node hand to the     *)
(* session.                                                                *)
(***************************************************************************)
\* The sample rates an AudioContext is created with.
SampleRates == {8000, 44100}

\* The state a new AudioContext is in (suspended until a user gesture), and
\* the change of state it has been asked for and not yet made: resume() and
\* suspend() return at once and the browser changes audioContext.state in a
\* later task.  A new context that is suspended may be about to start.
ContextStates == {"suspended", "running"}

\* this.audioContext after line 81, `if (state === "suspended") resume()`, and
\* after line 93, `if (state === "running") suspend()`.
resumeRequested(ctx) ==
  IF ctx # NULL /\ Get(ctx).state = "suspended"
    THEN Some([Get(ctx) EXCEPT !.transition = "resume"])
    ELSE ctx

suspendRequested(ctx) ==
  IF ctx # NULL /\ Get(ctx).state = "running"
    THEN Some([Get(ctx) EXCEPT !.transition = "suspend"])
    ELSE ctx

\* AnalyserNode.fftSize accepts the powers of two in 32..32768 and throws an
\* IndexSizeError for anything else; a new analyser has fftSize 2048.
ValidFFTSize(n) == \E k \in 5..15 : n = Pow2(k)
AnalyserDefaultFFTSize == 2048
frequencyBinCount(a) == Get(a).fftSize \div 2

\* What getByteFrequencyData may write into a buffer of n bytes: silence,
\* full scale, a spectrum rising with the bin, and a peak in the first bin.
SpectrumInputs(n) ==
  { Zeros(n),
    [i \in 1..n |-> 255],
    [i \in 1..n |-> ((i - 1) * 8 + 3) % 256],
    [i \in 1..n |-> IF i = 1 THEN 250 ELSE 60] }

\* The byte the analyser writes for a waveform sample x in -1..1 is
\* floor(128 * (1 + x)) clamped to 0..255.  Sine16 and Sine441 hold one
\* period of a full-scale sine sampled 16 and 441 times.
Sine16 == <<128, 176, 218, 246, 255, 246, 218, 176,
            128, 79, 37, 9, 0, 9, 37, 79>>

Sine441 ==
  <<128, 129, 131, 133, 135, 137, 138, 140, 142, 144, 146, 147, 149, 151, 153, 155, 156, 158,
    160, 162, 163, 165, 167, 169, 170, 172, 174, 176, 177, 179, 181, 182, 184, 185, 187, 189,
    190, 192, 193, 195, 197, 198, 200, 201, 203, 204, 206, 207, 208, 210, 211, 213, 214, 215,
    217, 218, 219, 220, 222, 223, 224, 225, 226, 228, 229, 230, 231, 232, 233, 234, 235, 236,
    237, 238, 239, 240, 241, 241, 242, 243, 244, 245, 245, 246, 247, 247, 248, 249, 249, 250,
    250, 251, 251, 252, 252, 252, 253, 253, 254, 254, 254, 254, 255, 255, 255, 255, 255, 255,
    255, 255, 255, 255, 255, 255, 255, 255, 255, 255, 255, 255, 254, 254, 254, 253, 253, 253,
    252, 252, 251, 251, 250, 250, 249, 249, 248, 248, 247, 246, 246, 245, 244, 243, 243, 242,
    241, 240, 239, 238, 237, 236, 236, 235, 234, 232, 231, 230, 229, 228, 227, 226, 225, 223,
    222, 221, 220, 218, 217, 216, 215, 213, 212, 210, 209, 208, 206, 205, 203, 202, 200, 199,
    197, 196, 194, 193, 191, 190, 188, 186, 185, 183, 181, 180, 178, 176, 175, 173, 171, 170,
    168, 166, 164, 163, 161, 159, 157, 156, 154, 152, 150, 148, 147, 145, 143, 141, 139, 138,
    136, 134, 132, 130, 128, 127, 125, 123, 121, 119, 117, 116, 114, 112, 110, 108, 107, 105,
    103, 101, 99, 98, 96, 94, 92, 91, 89, 87, 85, 84, 82, 80, 79, 77, 75, 74,
    72, 70, 69, 67, 65, 64, 62, 61, 59, 58, 56, 55, 53, 52, 50, 49, 47, 46,
    45, 43, 42, 40, 39, 38, 37, 35, 34, 33, 32, 30, 29, 28, 27, 26, 25, 24,
    23, 21, 20, 19, 19, 18, 17, 16, 15, 14, 13, 12, 12, 11, 10, 9, 9, 8,
    7, 7, 6, 6, 5, 5, 4, 4, 3, 3, 2, 2, 2, 1, 1, 1, 0, 0,
    0, 0, 0, 0, 0, 0, 0, 0, 0, 0, 0, 0, 0, 0, 0, 0, 1, 1,
    1, 1, 2, 2, 3, 3, 3, 4, 4, 5, 5, 6, 6, 7, 8, 8, 9, 10,
    10, 11, 12, 13, 14, 14, 15, 16, 17, 18, 19, 20, 21, 22, 23, 24, 25, 26,
    27, 29, 30, 31, 32, 33, 35, 36, 37, 38, 40, 41, 42, 44, 45, 47, 48, 49,
    51, 52, 54, 55, 57, 58, 60, 62, 63, 65, 66, 68, 70, 71, 73, 74, 76, 78,
    79, 81, 83, 85, 86, 88, 90, 92, 93, 95, 97, 99, 100, 102, 104, 106, 108, 109,
    111, 113, 115, 117, 118, 120, 122, 124, 126>>

\* What getByteTimeDomainData may write into a buffer of n bytes: silence, a
\* sine of period 16 samples, a square wave of period 10 samples.
WaveInputs(n) ==
  { [i \in 1..n |-> 128],
    [i \in 1..n |-> Sine16[((i - 1) % 16) + 1]],
    [i \in 1..n |-> IF (i - 1) % 10 < 5 THEN 228 ELSE 28] }

\* The arguments setFFTSize is called with.
SizeArgs == {0, 16, 32, 4095}

\* The arguments getCustomFrequencyData is called with.
PointLists == { <<>>, <<20, 100, 5000>>, <<60, 440, 600, 1000, 20000>> }

\* The clock readings (performance.now(), in ms) of the frames: on either
\* side of one interval after the page was loaded, and of one interval after
\* those.
FrameTimes == {100, 101, 201, 202}
\* The clock reading of the frames where only the mapping is looked at.
MapFrameTimes == {100}

(***************************************************************************)
(* The results of the mappers and of the pitch detector on the buffers the *)
(* session can hold.  A call looks its result up here; the table entries   *)
(* are the functions above applied to the call's inputs.                   *)
(***************************************************************************)
\* The lengths the session's buffers can have: fftSize / 2 for the size it is
\* constructed with and for the sizes setFFTSize can install.
SessionLengths ==
  { size \div 2 : size \in {Pow2(InitFFTLog2)}
                            \cup {a \in SizeArgs : ValidFFTSize(a)} }
SpectrumDomain == UNION { SpectrumInputs(n) : n \in SessionLengths }
WaveDomain == UNION { WaveInputs(n) : n \in SessionLengths }

normalizedSpectrumTable ==
  [freqData \in SpectrumDomain, sampleRate \in SampleRates,
   bands \in 1..MaxBands |->
     normalizedSpectrum(freqData, sampleRate, bands)]

\* The bin index line 315 computes for each band; none when bands = 1, where
\* i / (bands - 1) is 0 / 0 and the index is NaN.
normalizedBins(binCount, sampleRate, bands) ==
  IF bands = 1 THEN <<>>
  ELSE [k \in 1..bands |-> binIndex(binCount, sampleRate, bands, k - 1)]

normalizedBinsTable ==
  [binCount \in SessionLengths, sampleRate \in SampleRates,
   bands \in 1..MaxBands |->
     normalizedBins(binCount, sampleRate, bands)]

customFrequencyDataTable ==
  [freqData \in SpectrumDomain, sampleRate \in SampleRates,
   points \in PointLists |->
     customFrequencyData(freqData, sampleRate, points)]

\* The bins lines 230-231 compute for each target frequency.
customBins(binCount, sampleRate, points) ==
  [k \in 1..Len(points) |->
     <<lowerBinIndex(binCount, sampleRate, points[k]),
       upperBinIndex(binCount, sampleRate, points[k])>>]

customBinsTable ==
  [binCount \in SessionLengths, sampleRate \in SampleRates,
   points \in PointLists |->
     customBins(binCount, sampleRate, points)]

pitchTable ==
  [wave \in WaveDomain, sampleRate \in SampleRates |->
     pitchOf(wave, sampleRate)]

displayDataTable ==
  [freqData \in SpectrumDomain, sampleRate \in SampleRates |->
     displayData(freqData, sampleRate)]

\* The index line 165 computes for each frequency point.
displayBins ==
  [i \in 1..Len(frequencyPoints) |->
     displayIndex(numRawDataBands, frequencyPoints[i])]

(***************************************************************************)
(* The record of a completed call: its name and argument, what it returned *)
(* (ok: a boolean result; null: it returned null; data: a returned array   *)
(* or number), whether it wrote a diagnostic with console.error, whether   *)
(* it threw, whether it allocated new buffers, for a mapper the bin        *)
(* indices it computed, for a frame what its call of detectPitch()         *)
(* returned (null when the frame made no such call), for the file          *)
(* processor's mapper the spectrum it read into its local array, and for   *)
(* initialize() the provider resources (stream, context) it acquired and   *)
(* left open and those it held before and overwrote without releasing.     *)
(***************************************************************************)
Call(op, arg) ==
  [op |-> op, arg |-> arg, ok |-> TRUE, null |-> FALSE, data |-> <<>>,
   diag |-> FALSE, threw |-> FALSE, alloc |-> FALSE, bins |-> <<>>,
   detected |-> NULL, read |-> <<>>, opened |-> {}, dropped |-> {}]

(***************************************************************************)
(* new AudioAnalyzer(), lines 8-21.                                        *)
(***************************************************************************)
SessInit ==
  /\ audioContext = NULL
  /\ analyser = NULL
  /\ mediaStream = NULL
  /\ source = NULL
  /\ isInitialized = FALSE
  /\ isActive = FALSE
  /\ fftSize = Pow2(InitFFTLog2)
  /\ frequencyData = NULL
  /\ timeData = NULL
  /\ pending = 0
  /\ lastOp = Call("new", <<>>)
  /\ disposal = "none"

(***************************************************************************)
(* initialize(), lines 27-67.  The call runs to `await getUserMedia` and   *)
(* is resumed when the permission request settles.                         *)
(***************************************************************************)
\* The open provider resources the session references: the stream of line
\* 10 and the context of line 8.
held ==
  (IF mediaStream # NULL THEN {"stream"} ELSE {})
    \cup (IF audioContext # NULL THEN {"context"} ELSE {})

\* disposal after a step of initialize().
afterInitialize == IF disposal = "none" THEN "none" ELSE "reinitialized"

initializeAwait ==
  /\ UNCHANGED <<fileVars, viewVars, probe>>
  /\ disposal' = afterInitialize
  /\ pending < MaxPending
  /\ pending' = pending + 1
  /\ lastOp' = Call("initialize.await", <<>>)
  /\ UNCHANGED <<audioContext, analyser, mediaStream, source, isInitialized,
                 isActive, fftSize, frequencyData, timeData>>

\* Variant: a rejected request that still marks the session initialized.
initializeDeniedMarking ==
  /\ UNCHANGED <<fileVars, viewVars, probe>>
  /\ disposal' = afterInitialize
  /\ pending > 0
  /\ pending' = pending - 1
  /\ isInitialized' = TRUE
  /\ lastOp' = [Call("initialize", <<>>) EXCEPT !.ok = FALSE, !.diag = TRUE]
  /\ UNCHANGED <<audioContext, analyser, mediaStream, source,
                 isActive, fftSize, frequencyData, timeData>>

\* The request is rejected: line 30 throws, the catch of lines 63-66 returns false.
initializeDenied ==
  /\ UNCHANGED <<fileVars, viewVars, probe>>
  /\ disposal' = afterInitialize
  /\ pending > 0
  /\ pending' = pending - 1
  /\ lastOp' = [Call("initialize", <<>>) EXCEPT !.ok = FALSE, !.diag = TRUE]
  /\ UNCHANGED <<audioContext, analyser, mediaStream, source, isInitialized,
                 isActive, fftSize, frequencyData, timeData>>

\* The request is granted but the browser has no AudioContext: lines 40-43.
initializeNoContext ==
  /\ UNCHANGED <<fileVars, viewVars, probe>>
  /\ disposal' = afterInitialize
  /\ pending > 0
  /\ pending' = pending - 1
  /\ mediaStream' = Some("stream")
  /\ lastOp' = [Call("initialize", <<>>) EXCEPT
                  !.ok = FALSE, !.diag = TRUE, !.opened = {"stream"},
                  !.dropped = held \cap {"stream"}]
  /\ UNCHANGED <<audioContext, analyser, source, isInitialized, isActive,
                 fftSize, frequencyData, timeData>>

\* The request is granted: lines 44-62.  Setting analyser.fftSize (line 51)
\* throws when this.fftSize is not a size the analyser accepts; the catch
\* then returns false with the context, source and analyser already stored.
initializeGranted ==
  /\ UNCHANGED <<fileVars, viewVars, probe>>
  /\ disposal' = afterInitialize
  /\ pending > 0
  /\ pending' = pending - 1
  /\ mediaStream' = Some("stream")
  /\ \E st \in ContextStates, sr \in SampleRates :
       \E tr \in IF st = "suspended" THEN {"none", "resume"} ELSE {"none"} :
         audioContext' = Some([state |-> st, transition |-> tr,
                               sampleRate |-> sr])
  /\ source' = Some("source")
  /\ IF ValidFFTSize(fftSize)
       THEN /\ analyser' = Some([fftSize |-> fftSize])
            /\ frequencyData' = Some(Zeros(fftSize \div 2))
            /\ timeData' = Some(Zeros(fftSize \div 2))
            /\ isInitialized' = TRUE
            /\ lastOp' = [Call("initialize", <<>>) EXCEPT
                            !.alloc = TRUE, !.opened = {"stream", "context"},
                            !.dropped = held]
       ELSE /\ analyser' = Some([fftSize |-> AnalyserDefaultFFTSize])
            /\ lastOp' = [Call("initialize", <<>>) EXCEPT
                            !.ok = FALSE, !.diag = TRUE,
                            !.opened = {"stream", "context"},
                            !.dropped = held]
            /\ UNCHANGED <<frequencyData, timeData, isInitialized>>
  /\ UNCHANGED <<isActive, fftSize>>

(***************************************************************************)
(* start(), lines 72-86.                                                   *)
(***************************************************************************)
\* Variant: start() without the test of line 73.
startUnchecked ==
  /\ UNCHANGED <<fileVars, viewVars, probe, disposal>>
  /\ audioContext' = resumeRequested(audioContext)
  /\ isActive' = TRUE
  /\ lastOp' = Call("start", <<>>)
  /\ UNCHANGED <<analyser, mediaStream, source, isInitialized, fftSize,
                 frequencyData, timeData, pending>>

start ==
  /\ UNCHANGED <<fileVars, viewVars, probe, disposal>>
  /\ IF ~isInitialized
       THEN /\ lastOp' = [Call("start", <<>>) EXCEPT !.ok = FALSE, !.diag = TRUE]
            /\ UNCHANGED <<audioContext, analyser, mediaStream, source,
                           isInitialized, isActive, fftSize, frequencyData,
                           timeData, pending>>
       ELSE /\ audioContext' = resumeRequested(audioContext)
            /\ isActive' = TRUE
            /\ lastOp' = Call("start", <<>>)
            /\ UNCHANGED <<analyser, mediaStream, source, isInitialized, fftSize,
                           frequencyData, timeData, pending>>

(***************************************************************************)
(* stop(), lines 91-96.                                                    *)
(***************************************************************************)
\* Variant: stop() that also releases the buffers.
stopReleasing ==
  /\ UNCHANGED <<fileVars, viewVars, probe, disposal>>
  /\ audioContext' = suspendRequested(audioContext)
  /\ isActive' = FALSE
  /\ frequencyData' = NULL
  /\ timeData' = NULL
  /\ lastOp' = Call("stop", <<>>)
  /\ UNCHANGED <<analyser, mediaStream, source, isInitialized, fftSize,
                 pending>>

stop ==
  /\ UNCHANGED <<fileVars, viewVars, probe, disposal>>
  /\ audioContext' = suspendRequested(audioContext)
  /\ isActive' = FALSE
  /\ lastOp' = Call("stop", <<>>)
  /\ UNCHANGED <<analyser, mediaStream, source, isInitialized, fftSize,
                 frequencyData, timeData, pending>>

(***************************************************************************)
(* The browser carries out the resume() or suspend() that start() or       *)
(* stop() requested: audioContext.state changes.                           *)
(***************************************************************************)
contextStateChange ==
  /\ UNCHANGED <<fileVars, viewVars, probe, disposal>>
  /\ audioContext # NULL
  /\ Get(audioContext).transition # "none"
  /\ audioContext' =
       Some([Get(audioContext) EXCEPT
               !.state = IF Get(audioContext).transition = "resume"
                           THEN "running" ELSE "suspended",
               !.transition = "none"])
  /\ lastOp' = Call("statechange", <<>>)
  /\ UNCHANGED <<analyser, mediaStream, source, isInitialized, isActive,
                 fftSize, frequencyData, timeData, pending>>

(***************************************************************************)
(* dispose(), lines 101-123.                                               *)
(***************************************************************************)
\* Variant: dispose() that leaves isActive as it was.
disposeKeepingActive ==
  /\ UNCHANGED <<fileVars, viewVars, probe>>
  /\ disposal' = "disposed"
  /\ analyser' = NULL
  /\ source' = NULL
  /\ mediaStream' = NULL
  /\ audioContext' = NULL
  /\ frequencyData' = NULL
  /\ timeData' = NULL
  /\ isInitialized' = FALSE
  /\ lastOp' = Call("dispose", <<>>)
  /\ UNCHANGED <<fftSize, pending, isActive>>

dispose ==
  /\ UNCHANGED <<fileVars, viewVars, probe>>
  /\ disposal' = "disposed"
  /\ analyser' = NULL
  /\ source' = NULL
  /\ mediaStream' = NULL
  /\ audioContext' = NULL
  /\ frequencyData' = NULL
  /\ timeData' = NULL
  /\ isInitialized' = FALSE
  /\ isActive' = FALSE
  /\ lastOp' = Call("dispose", <<>>)
  /\ UNCHANGED <<fftSize, pending>>

(***************************************************************************)
(* getFrequencyData() and getTimeData(), lines 128-157: null unless the    *)
(* session is initialized and active; otherwise the analyser refreshes the *)
(* buffer in place and the buffer is returned.                             *)
(***************************************************************************)
\* Variants: the polls test isInitialized but not isActive.
frequencyAvailableWhenStopped ==
  isInitialized /\ analyser # NULL /\ frequencyData # NULL
timeAvailableWhenStopped ==
  isInitialized /\ analyser # NULL /\ timeData # NULL

frequencyAvailable ==
  isInitialized /\ isActive /\ analyser # NULL /\ frequencyData # NULL
timeAvailable ==
  isInitialized /\ isActive /\ analyser # NULL /\ timeData # NULL

getFrequencyData ==
  /\ UNCHANGED <<fileVars, viewVars, probe, disposal>>
  /\ IF ~frequencyAvailable
       THEN /\ lastOp' = [Call("getFrequencyData", <<>>) EXCEPT !.null = TRUE]
            /\ UNCHANGED <<audioContext, analyser, mediaStream, source,
                           isInitialized, isActive, fftSize, frequencyData,
                           timeData, pending>>
       ELSE \E raw \in SpectrumInputs(Len(Get(frequencyData))) :
              /\ frequencyData' = Some(raw)
              /\ lastOp' = [Call("getFrequencyData", <<>>) EXCEPT !.data = raw]
              /\ UNCHANGED <<audioContext, analyser, mediaStream, source,
                             isInitialized, isActive, fftSize, timeData, pending>>

getTimeData ==
  /\ UNCHANGED <<fileVars, viewVars, probe, disposal>>
  /\ IF ~timeAvailable
       THEN /\ lastOp' = [Call("getTimeData", <<>>) EXCEPT !.null = TRUE]
            /\ UNCHANGED <<audioContext, analyser, mediaStream, source,
                           isInitialized, isActive, fftSize, frequencyData,
                           timeData, pending>>
       ELSE \E wave \in WaveInputs(Len(Get(timeData))) :
              /\ timeData' = Some(wave)
              /\ lastOp' = [Call("getTimeData", <<>>) EXCEPT !.data = wave]
              /\ UNCHANGED <<audioContext, analyser, mediaStream, source,
                             isInitialized, isActive, fftSize, frequencyData,
                             pending>>

(***************************************************************************)
(* detectPitch(), lines 163-205: getTimeData() refreshes the waveform,     *)
(* then the pitch is computed from it.                                     *)
(***************************************************************************)
detectPitch ==
  /\ UNCHANGED <<fileVars, viewVars, probe, disposal>>
  /\ IF ~timeAvailable \/ audioContext = NULL
       THEN /\ lastOp' = [Call("detectPitch", <<>>) EXCEPT !.data = DZero]
            /\ UNCHANGED <<audioContext, analyser, mediaStream, source,
                           isInitialized, isActive, fftSize, frequencyData,
                           timeData, pending>>
       ELSE \E wave \in WaveInputs(Len(Get(timeData))) :
              /\ timeData' = Some(wave)
              /\ lastOp' = [Call("detectPitch", <<>>) EXCEPT
                              !.data = pitchTable[wave, Get(audioContext).sampleRate]]
              /\ UNCHANGED <<audioContext, analyser, mediaStream, source,
                             isInitialized, isActive, fftSize, frequencyData,
                             pending>>

(***************************************************************************)
(* getCustomFrequencyData(frequencyPoints), lines 211-282.                 *)
(***************************************************************************)
getCustomFrequencyData(points) ==
  /\ UNCHANGED <<fileVars, viewVars, probe, disposal>>
  /\ IF ~frequencyAvailable \/ audioContext = NULL
          \/ Len(Get(frequencyData)) = 0
       THEN /\ lastOp' = [Call("getCustomFrequencyData", points) EXCEPT
                            !.data = [k \in 1..Len(points) |-> DZero]]
            /\ UNCHANGED <<audioContext, analyser, mediaStream, source,
                           isInitialized, isActive, fftSize, frequencyData,
                           timeData, pending>>
       ELSE \E raw \in SpectrumInputs(Len(Get(frequencyData))) :
              /\ frequencyData' = Some(raw)
              /\ lastOp' = [Call("getCustomFrequencyData", points) EXCEPT
                              !.data = customFrequencyDataTable[
                                         raw, Get(audioContext).sampleRate, points],
                              !.bins = customBinsTable[
                                         Len(raw), Get(audioContext).sampleRate, points]]
              /\ UNCHANGED <<audioContext, analyser, mediaStream, source,
                             isInitialized, isActive, fftSize, timeData, pending>>

(***************************************************************************)
(* getNormalizedSpectrum(bands), lines 289-324.                            *)
(***************************************************************************)
getNormalizedSpectrum(bands) ==
  /\ UNCHANGED <<fileVars, viewVars, probe, disposal>>
  /\ IF ~frequencyAvailable \/ audioContext = NULL
          \/ Len(Get(frequencyData)) = 0
       THEN /\ lastOp' = [Call("getNormalizedSpectrum", <<bands>>) EXCEPT
                            !.data = Zeros(bands)]
            /\ UNCHANGED <<audioContext, analyser, mediaStream, source,
                           isInitialized, isActive, fftSize, frequencyData,
                           timeData, pending>>
       ELSE \E raw \in SpectrumInputs(Len(Get(frequencyData))) :
              /\ frequencyData' = Some(raw)
              /\ lastOp' = [Call("getNormalizedSpectrum", <<bands>>) EXCEPT
                              !.data = normalizedSpectrumTable[
                                         raw, Get(audioContext).sampleRate, bands],
                              !.bins = normalizedBinsTable[
                                         Len(raw), Get(audioContext).sampleRate, bands]]
              /\ UNCHANGED <<audioContext, analyser, mediaStream, source,
                             isInitialized, isActive, fftSize, timeData, pending>>

(***************************************************************************)
(* getStatus(), lines 329-334.                                             *)
(***************************************************************************)
getStatus ==
  /\ UNCHANGED <<fileVars, viewVars, probe, disposal>>
  /\ lastOp' = [Call("getStatus", <<>>) EXCEPT
                  !.data = <<isInitialized, isActive>>]
  /\ UNCHANGED <<audioContext, analyser, mediaStream, source, isInitialized,
                 isActive, fftSize, frequencyData, timeData, pending>>

(***************************************************************************)
(* setFFTSize(size), lines 339-352.  The test of line 343 is the bitwise   *)
(* size & (size - 1); line 348 stores the size before line 349 hands it to *)
(* the analyser, which throws for a size it does not accept.               *)
(***************************************************************************)
setFFTSize(size) ==
  /\ UNCHANGED <<fileVars, viewVars, probe, disposal>>
  /\ IF analyser = NULL
       THEN /\ lastOp' = Call("setFFTSize", <<size>>)
            /\ UNCHANGED <<audioContext, analyser, mediaStream, source,
                           isInitialized, isActive, fftSize, frequencyData,
                           timeData, pending>>
     ELSE IF BitAnd(size, size - 1) # 0
       THEN /\ lastOp' = [Call("setFFTSize", <<size>>) EXCEPT !.diag = TRUE]
            /\ UNCHANGED <<audioContext, analyser, mediaStream, source,
                           isInitialized, isActive, fftSize, frequencyData,
                           timeData, pending>>
     ELSE /\ fftSize' = size
          /\ IF ValidFFTSize(size)
               THEN /\ analyser' = Some([fftSize |-> size])
                    /\ frequencyData' = Some(Zeros(size \div 2))
                    /\ timeData' = Some(Zeros(size \div 2))
                    /\ lastOp' = [Call("setFFTSize", <<size>>) EXCEPT
                                    !.alloc = TRUE]
               ELSE /\ lastOp' = [Call("setFFTSize", <<size>>) EXCEPT
                                    !.threw = TRUE]
                    /\ UNCHANGED <<analyser, frequencyData, timeData>>
          /\ UNCHANGED <<audioContext, mediaStream, source, isInitialized,
                         isActive, pending>>


(***************************************************************************)
(* AudioFileProcessor, AudioFileAnalyzer.tsx.  The processor is created on *)
(* first use (getAudioFileProcessor, lines 187-194); its constructor       *)
(* (lines 25-28) creates the audio context.                                *)
(***************************************************************************)
\* The transform size loadAudioFile gives its analyser.
fileFFTSize == Pow2(FileFFTLog2)

\* The durations (in seconds) of the files that are loaded.
Durations == {3}

fileSpectrumTable ==
  [freqData \in SpectrumInputs(fileFFTSize \div 2),
   sampleRate \in SampleRates, bands \in 1..MaxBands |->
     fileNormalizedSpectrum(freqData, sampleRate, fileFFTSize, bands)]

\* The band each bin below maxBin is assigned to (lines 152-161).
fileBins(sampleRate, bands) ==
  bandsOfBins(sampleRate, fileFFTSize, bands,
              maxBin(sampleRate, fileFFTSize, fileFFTSize \div 2))

fileBinsTable ==
  [sampleRate \in SampleRates, bands \in 1..MaxBands |->
     fileBins(sampleRate, bands)]

\* The playback fields of a new processor (lines 19-22), its context's
\* clock, and the state of a newly mounted component (lines 201-205).
PlayInit ==
  /\ fileSource = NULL
  /\ isPlaying = FALSE
  /\ startTime = 0
  /\ pauseTime = 0
  /\ contextTime = 0
  /\ file = FALSE
  /\ isLoading = FALSE
  /\ error = FALSE
  /\ uiIsPlaying = FALSE
  /\ progress = DZero

\* No processor has been created.
FileAbsent ==
  /\ fileAudioContext = NULL
  /\ audioBuffer = NULL
  /\ fileAnalyser = NULL
  /\ duration = 0
  /\ loading = 0
  /\ PlayInit

\* new AudioFileProcessor().
FileInit ==
  /\ \E sr \in SampleRates : fileAudioContext = Some([sampleRate |-> sr])
  /\ audioBuffer = NULL
  /\ fileAnalyser = NULL
  /\ duration = 0
  /\ loading = 0
  /\ PlayInit

\* loadAudioFile(file), lines 30-45, on the fields of the processor.  The
\* call runs up to its awaits (reading and decoding the file); then either
\* the file is decoded (lines 33-40) or reading or decoding fails and the
\* catch of lines 41-44 returns false.  When dispose() has run meanwhile, a
\* call that was reading fails at line 33 on the null context, and a call
\* that was decoding stores the buffer and its duration (lines 33-34),
\* throws at line 37 on the null context and returns false from the catch.
loadBegins ==
  /\ loading < MaxPending
  /\ loading' = loading + 1
  /\ lastOp' = Call("loadAudioFile.await", <<>>)
  /\ UNCHANGED <<fileAudioContext, audioBuffer, fileAnalyser, duration,
                 playVars>>

loadDecodes ==
  /\ loading > 0
  /\ loading' = loading - 1
  /\ \E d \in Durations :
       /\ audioBuffer' = Some([duration |-> d])
       /\ duration' = d
  /\ IF fileAudioContext # NULL
       THEN /\ fileAnalyser' = Some([fftSize |-> fileFFTSize])
            /\ lastOp' = Call("loadAudioFile", <<>>)
       ELSE /\ lastOp' = [Call("loadAudioFile", <<>>) EXCEPT
                            !.ok = FALSE, !.diag = TRUE]
            /\ UNCHANGED fileAnalyser
  /\ UNCHANGED <<fileAudioContext, playVars>>

loadFails ==
  /\ loading > 0
  /\ loading' = loading - 1
  /\ lastOp' = [Call("loadAudioFile", <<>>) EXCEPT !.ok = FALSE, !.diag = TRUE]
  /\ UNCHANGED <<fileAudioContext, audioBuffer, fileAnalyser, duration,
                 playVars>>

\* loadAudioFile called on the processor itself.
loadAudioFileAwait ==
  /\ UNCHANGED <<sessVars, viewVars, probe, disposal>>
  /\ loadBegins
  /\ UNCHANGED uiVars

loadAudioFileDecoded ==
  /\ UNCHANGED <<sessVars, viewVars, probe, disposal>>
  /\ loadDecodes
  /\ UNCHANGED uiVars

loadAudioFileFailed ==
  /\ UNCHANGED <<sessVars, viewVars, probe, disposal>>
  /\ loadFails
  /\ UNCHANGED uiVars

\* handleFileChange, lines 211-244, of the mounted component.  A file that
\* is not audio only shows the error (lines 218-222); for an audio file the
\* handler sets its states and calls loadAudioFile (lines 225-230).
handleFileChangeNotAudio ==
  /\ UNCHANGED <<sessVars, viewVars, probe, disposal>>
  /\ fileAudioContext # NULL
  /\ error' = TRUE
  /\ lastOp' = [Call("handleFileChange", <<>>) EXCEPT !.ok = FALSE]
  /\ UNCHANGED <<fileAudioContext, audioBuffer, fileAnalyser, duration,
                 loading, playVars, file, isLoading, uiIsPlaying, progress>>

handleFileChange ==
  /\ UNCHANGED <<sessVars, viewVars, probe, disposal>>
  /\ fileAudioContext # NULL
  /\ loadBegins
  /\ file' = TRUE
  /\ error' = FALSE
  /\ isLoading' = TRUE
  /\ UNCHANGED <<uiIsPlaying, progress>>

\* The handler resumes when loadAudioFile returns: lines 231-238 after true,
\* lines 235-237 after false.  The states of a component that was unmounted
\* meanwhile are not set any more.
handleFileChangeLoaded ==
  /\ UNCHANGED <<sessVars, viewVars, probe, disposal>>
  /\ loadDecodes
  /\ IF fileAudioContext # NULL
       THEN isLoading' = FALSE
       ELSE UNCHANGED isLoading
  /\ UNCHANGED <<file, error, uiIsPlaying, progress>>

handleFileChangeFailed ==
  /\ UNCHANGED <<sessVars, viewVars, probe, disposal>>
  /\ loadFails
  /\ IF fileAudioContext # NULL
       THEN error' = TRUE /\ isLoading' = FALSE
       ELSE UNCHANGED <<error, isLoading>>
  /\ UNCHANGED <<file, uiIsPlaying, progress>>

\* AudioFileProcessor.getNormalizedSpectrum(bands), lines 135-171.
fileGetNormalizedSpectrum(bands) ==
  /\ UNCHANGED <<sessVars, fileVars, viewVars, probe, disposal>>
  /\ IF fileAnalyser = NULL \/ fileAudioContext = NULL
       THEN lastOp' = [Call("file.getNormalizedSpectrum", <<bands>>) EXCEPT
                         !.data = Zeros(bands)]
       ELSE \E freqData \in SpectrumInputs(frequencyBinCount(fileAnalyser)) :
              lastOp' = [Call("file.getNormalizedSpectrum", <<bands>>) EXCEPT
                           !.data = fileSpectrumTable[
                                      freqData,
                                      Get(fileAudioContext).sampleRate, bands],
                           !.bins = fileBinsTable[
                                      Get(fileAudioContext).sampleRate, bands],
                           !.read = freqData]

(***************************************************************************)
(* Playback: play, pause, stop, getCurrentTime and dispose of the          *)
(* AudioFileProcessor (lines 47-98, 116-124, 173-183) and the handlers of  *)
(* the AudioFileAnalyzer component that call them (lines 246-304).  The    *)
(* context's clock advances on its own.                                    *)
(***************************************************************************)
\* getCurrentTime(), lines 116-124.
getCurrentTime ==
  IF fileAudioContext = NULL THEN 0
  ELSE IF isPlaying THEN contextTime - startTime
  ELSE pauseTime

\* offset of line 64, read after the this.stop() of line 51 has run; stopped
\* is the pauseTime that stop() left.
playOffset(stopped) == IF stopped > 0 THEN stopped ELSE 0

\* play(), lines 47-71.  Line 51 calls stop(), which releases the source and
\* sets isPlaying = false and pauseTime = 0 (lines 86-97), before the offset
\* is read.
play ==
  IF audioBuffer = NULL \/ fileAudioContext = NULL \/ fileAnalyser = NULL
    THEN UNCHANGED <<fileSource, isPlaying, startTime, pauseTime>>
    ELSE /\ pauseTime' = 0
         /\ fileSource' = Some([buffer |-> Get(audioBuffer),
                                offset |-> playOffset(0),
                                startedAt |-> contextTime])
         /\ startTime' = contextTime - playOffset(0)
         /\ isPlaying' = TRUE

\* pause(), lines 73-83.
pause ==
  IF ~isPlaying \/ fileSource = NULL \/ fileAudioContext = NULL
    THEN UNCHANGED <<fileSource, isPlaying, startTime, pauseTime>>
    ELSE /\ pauseTime' = contextTime - startTime
         /\ fileSource' = NULL
         /\ isPlaying' = FALSE
         /\ UNCHANGED startTime

\* stop(), lines 85-98.
stopPlayback ==
  /\ fileSource' = NULL
  /\ isPlaying' = FALSE
  /\ pauseTime' = 0
  /\ UNCHANGED startTime

\* The controls are rendered when a file is selected, no load is shown as
\* in progress and no error is shown (line 407).
controlsShown == fileAudioContext # NULL /\ file /\ ~isLoading /\ ~error

\* handlePlayPause, lines 246-254.
handlePlayPause ==
  /\ controlsShown
  /\ UNCHANGED <<sessVars, viewVars, probe, disposal>>
  /\ UNCHANGED <<fileAudioContext, audioBuffer, fileAnalyser, duration,
                 loading, contextTime, progress, file, isLoading, error>>
  /\ IF uiIsPlaying
       THEN /\ pause
            /\ uiIsPlaying' = FALSE
            /\ lastOp' = Call("handlePlayPause", <<"pause">>)
       ELSE /\ play
            /\ uiIsPlaying' = TRUE
            /\ lastOp' = Call("handlePlayPause", <<"play">>)

\* handleStop, lines 256-260; its button is disabled when nothing plays and
\* the progress is 0 (line 507).
handleStop ==
  /\ controlsShown
  /\ uiIsPlaying \/ ~DIsZero(progress)
  /\ UNCHANGED <<sessVars, viewVars, probe, disposal>>
  /\ UNCHANGED <<fileAudioContext, audioBuffer, fileAnalyser, duration,
                 loading, contextTime, file, isLoading, error>>
  /\ stopPlayback
  /\ uiIsPlaying' = FALSE
  /\ progress' = DZero
  /\ lastOp' = Call("handleStop", <<>>)

\* (currentTime / duration) * 100 of line 271.
progressOf(time, length) ==
  DMul(DDiv(DFromInt(time), DFromInt(length)), DFromInt(100))

\* updateProgress, lines 266-281: the frame callback the effect of lines
\* 263-290 keeps armed while the component's isPlaying is true.
updateProgress ==
  /\ fileAudioContext # NULL
  /\ uiIsPlaying
  /\ UNCHANGED <<sessVars, viewVars, probe, disposal>>
  /\ UNCHANGED <<fileAudioContext, audioBuffer, fileAnalyser, duration,
                 loading, fileSource, isPlaying, startTime, pauseTime,
                 contextTime, file, isLoading, error>>
  /\ IF getCurrentTime >= duration
       THEN /\ uiIsPlaying' = FALSE
            /\ progress' = DZero
       ELSE /\ UNCHANGED uiIsPlaying
            /\ progress' = IF duration > 0
                              THEN progressOf(getCurrentTime, duration)
                              ELSE progress
  /\ lastOp' = [Call("updateProgress", <<>>) EXCEPT
                  !.data = <<getCurrentTime, duration>>]

\* dispose() of the processor, lines 173-183, as the cleanup of lines
\* 293-304 calls it before it sets fileProcessorInstance = null.
processorDisposed ==
  /\ stopPlayback
  /\ fileAudioContext' = NULL
  /\ fileAnalyser' = NULL
  /\ audioBuffer' = NULL
  /\ UNCHANGED <<duration, loading, contextTime, uiVars>>

\* getAudioFileProcessor(), lines 189-194, called at line 208 when the
\* component is mounted while fileProcessorInstance is null: it constructs
\* a new processor (lines 16-28) with a new context, whose clock starts at
\* 0, and the component's states take their initial values (lines 201-205).
\* Loads still pending belong to the processor that was disposed and to the
\* component that was unmounted.
processorCreated ==
  /\ \E sr \in SampleRates : fileAudioContext' = Some([sampleRate |-> sr])
  /\ audioBuffer' = NULL
  /\ fileAnalyser' = NULL
  /\ duration' = 0
  /\ loading' = 0
  /\ fileSource' = NULL
  /\ isPlaying' = FALSE
  /\ startTime' = 0
  /\ pauseTime' = 0
  /\ contextTime' = 0
  /\ file' = FALSE
  /\ isLoading' = FALSE
  /\ error' = FALSE
  /\ uiIsPlaying' = FALSE
  /\ progress' = DZero

\* The AudioFileAnalyzer component is unmounted: the cleanup of lines
\* 293-304.
unmount ==
  /\ fileAudioContext # NULL
  /\ UNCHANGED <<sessVars, viewVars, probe, disposal>>
  /\ processorDisposed
  /\ lastOp' = Call("file.dispose", <<>>)

\* The AudioFileAnalyzer component is mounted again after its cleanup.
mount ==
  /\ fileAudioContext = NULL
  /\ UNCHANGED <<sessVars, viewVars, probe, disposal>>
  /\ processorCreated
  /\ lastOp' = Call("mount", <<>>)

\* A second of the context's clock passes.
tick ==
  /\ fileAudioContext # NULL
  /\ contextTime < MaxClock
  /\ contextTime' = contextTime + 1
  /\ lastOp' = Call("tick", <<>>)
  /\ UNCHANGED <<sessVars, viewVars, probe, disposal>>
  /\ UNCHANGED <<fileAudioContext, audioBuffer, fileAnalyser, duration,
                 loading, playVarsButClock, uiVars>>

(***************************************************************************)
(* The frame loop of SpectrumAnalyzer.tsx: the component's state (lines    *)
(* 96, 121-131) and animate (lines 142-219), which runs while the          *)
(* component is mounted and re-arms itself with requestAnimationFrame on   *)
(* every frame.                                                            *)
(***************************************************************************)
pitchDetectionInterval == 100

\* The component is not mounted.
ViewAbsent ==
  /\ mode = NULL
  /\ spectrumData = NULL
  /\ spectrogramHistory = NULL
  /\ pitch = NULL
  /\ lastPitchDetectionTime = NULL
  /\ frameTime = NULL
  /\ pitchDetectedAt = NULL

\* The component is mounted, showing the spectrum.
ViewInit ==
  /\ mode = "spectrum"
  /\ spectrumData = [i \in 1..Len(frequencyPoints) |-> DZero]
  /\ spectrogramHistory =
       [t \in 1..HistoryLength |-> [i \in 1..Len(frequencyPoints) |-> DZero]]
  /\ pitch = 0
  /\ lastPitchDetectionTime = 0
  /\ frameTime = 0
  /\ pitchDetectedAt = 0

\* What getNormalizedSpectrum(10000) and the mapping of lines 160-192 make
\* of the spectrum raw, or of no spectrum.
frameData(raw) ==
  IF raw = NULL THEN [i \in 1..Len(frequencyPoints) |-> DZero]
  ELSE displayDataTable[raw, Get(audioContext).sampleRate]

\* The spectra and waveforms a frame can read: NULL stands for the
\* unavailable buffer.
frameSpectra ==
  IF ~frequencyAvailable \/ audioContext = NULL
       \/ Len(Get(frequencyData)) = 0
    THEN {NULL}
    ELSE SpectrumInputs(Len(Get(frequencyData)))
frameWaves ==
  IF ~timeAvailable \/ audioContext = NULL THEN {NULL}
  ELSE WaveInputs(Len(Get(timeData)))

\* The mode prop changes: the toggles of page.tsx lines 475-476 and 506-507
\* call setVisualizationMode, and the page passes the mode on (line 642).
setVisualizationMode(newMode) ==
  /\ spectrumData # NULL
  /\ UNCHANGED <<sessVars, fileVars, probe, disposal>>
  /\ mode' = newMode
  /\ lastOp' = Call("setVisualizationMode", <<newMode>>)
  /\ UNCHANGED <<spectrumData, spectrogramHistory, pitch,
                 lastPitchDetectionTime, frameTime, pitchDetectedAt>>

\* The states of a SpectrumAnalyzer that has just been mounted (lines 96,
\* 121-131); the page's clock and the mode prop are the page's.
viewMounted ==
  /\ spectrumData' = [i \in 1..Len(frequencyPoints) |-> DZero]
  /\ spectrogramHistory' =
       [t \in 1..HistoryLength |-> [i \in 1..Len(frequencyPoints) |-> DZero]]
  /\ pitch' = 0
  /\ lastPitchDetectionTime' = 0
  /\ UNCHANGED <<mode, frameTime, pitchDetectedAt>>

\* The source toggles of page.tsx lines 292 and 313 call setAnalysisSource.
\* The page renders SpectrumAnalyzer at another place of its tree for the
\* other source (lines 641-675), so the mounted one is unmounted and a new
\* one is mounted.  For "file" the AudioFileAnalyzer is mounted too (lines
\* 539-541) and the effect of lines 120-132 calls stop() on the session;
\* for "microphone" the AudioFileAnalyzer is unmounted and its cleanup
\* disposes the processor.  Setting the source it already has does nothing.
setAnalysisSource(newSource) ==
  /\ spectrumData # NULL
  /\ UNCHANGED <<probe, disposal>>
  /\ viewMounted
  /\ lastOp' = Call("setAnalysisSource", <<newSource>>)
  /\ IF newSource = "file"
       THEN /\ fileAudioContext = NULL
            /\ processorCreated
            /\ audioContext' = suspendRequested(audioContext)
            /\ isActive' = FALSE
            /\ UNCHANGED <<analyser, mediaStream, source, isInitialized,
                           fftSize, frequencyData, timeData, pending>>
       ELSE /\ fileAudioContext # NULL
            /\ processorDisposed
            /\ UNCHANGED sessVars

\* [...prev.slice(1), newData] of line 199.
pushed(history, newData) == Tail(history) \o <<newData>>

\* What detectPitch() returns to the frame for the waveform it read, or for
\* no waveform.
framePitch(wave) ==
  IF wave = NULL THEN DZero
  ELSE pitchTable[wave, Get(audioContext).sampleRate]

\* The test of lines 206-209.
pitchDue(currentTime) ==
  currentTime - lastPitchDetectionTime > pitchDetectionInterval

animate(currentTime) ==
  /\ spectrumData # NULL
  /\ currentTime >= frameTime
  /\ frameTime' = currentTime
  /\ UNCHANGED <<fileVars, probe, mode, disposal>>
  /\ UNCHANGED <<audioContext, analyser, mediaStream, source, isInitialized,
                 isActive, fftSize, pending>>
  /\ IF ~(isInitialized /\ isActive)
       THEN /\ lastOp' = [Call("animate", <<currentTime>>) EXCEPT
                            !.null = TRUE]
            /\ UNCHANGED <<frequencyData, timeData, spectrumData,
                           spectrogramHistory, pitch, lastPitchDetectionTime,
                           pitchDetectedAt>>
       ELSE \E raw \in frameSpectra :
              /\ frequencyData' = IF raw = NULL THEN frequencyData
                                  ELSE Some(raw)
              /\ spectrumData' = frameData(raw)
              /\ spectrogramHistory' =
                   IF mode = "spectrogram"
                     THEN pushed(spectrogramHistory, frameData(raw))
                     ELSE spectrogramHistory
              /\ IF pitchDue(currentTime)
                   THEN \E wave \in frameWaves :
                          /\ timeData' = IF wave = NULL THEN timeData
                                         ELSE Some(wave)
                          /\ pitch' = IF DLess(DZero, framePitch(wave))
                                        THEN DRound(framePitch(wave))
                                        ELSE pitch
                          /\ lastPitchDetectionTime' = currentTime
                          /\ pitchDetectedAt' = currentTime
                          /\ lastOp' = [Call("animate", <<currentTime>>) EXCEPT
                                          !.data = frameData(raw),
                                          !.bins = displayBins,
                                          !.detected = Some(framePitch(wave))]
                   ELSE /\ UNCHANGED <<timeData, pitch, lastPitchDetectionTime,
                                       pitchDetectedAt>>
                        /\ lastOp' = [Call("animate", <<currentTime>>) EXCEPT
                                        !.data = frameData(raw),
                                        !.bins = displayBins]

(***************************************************************************)
(* The pitch detector as a function of the waveform: lines 169-204 applied *)
(* to probes.  A probe with harmonic h >= 1 is the sine of frequency       *)
(* h * 100 Hz sampled at 44100 Hz (441 / h samples per period) into a      *)
(* buffer of the given length.  The probe with harmonic 0 is a waveform    *)
(* sampled at 8000 Hz: a block of 1033 samples at 0, then silence but for  *)
(* two samples of 255 and two of 144, each pair 9 samples apart.  A buffer *)
(* has analyser.frequencyBinCount = fftSize / 2 samples, a power of two    *)
(* from 16 on.                                                             *)
(***************************************************************************)
Harmonics == 1..13
ShortBuffers == {16, 32, 64, 128}

PitchProbes ==
  { [harmonic |-> h, length |-> n] : h \in Harmonics, n \in ShortBuffers }
    \cup { [harmonic |-> h, length |-> 2048] : h \in {0, 1, 3, 11} }

sineWave(p) ==
  [i \in 1..p.length |-> Sine441[(((i - 1) * p.harmonic) % 441) + 1]]

blockWave(p) ==
  [i \in 1..p.length |->
     IF i <= 1033 THEN 0
     ELSE IF i \in {1101, 1110} THEN 255
     ELSE IF i \in {1201, 1210} THEN 144
     ELSE 128]

probeWave(p) == IF p.harmonic = 0 THEN blockWave(p) ELSE sineWave(p)
probeRate(p) == IF p.harmonic = 0 THEN 8000 ELSE 44100

applyPitch ==
  /\ UNCHANGED <<sessVars, fileVars, viewVars, probe, disposal>>
  /\ probe # NULL
  /\ lastOp.op = "new"
  /\ lastOp' = [Call("pitchOf", probe) EXCEPT
                  !.data = pitchOf(probeWave(Get(probe)),
                                   probeRate(Get(probe)))]

(***************************************************************************)
(* Spec: the session under every call its callers can make.                *)
(***************************************************************************)
Init == SessInit /\ FileAbsent /\ ViewAbsent /\ probe = NULL

Next ==
  \/ initializeAwait
  \/ initializeDenied
  \/ initializeNoContext
  \/ initializeGranted
  \/ start
  \/ stop
  \/ contextStateChange
  \/ dispose
  \/ getFrequencyData
  \/ getTimeData
  \/ detectPitch
  \/ \E points \in PointLists : getCustomFrequencyData(points)
  \/ \E bands \in 1..MaxBands : getNormalizedSpectrum(bands)
  \/ getStatus
  \/ \E size \in SizeArgs : setFFTSize(size)

Spec == Init /\ [][Next]_vars

(***************************************************************************)
(* SpecMap: the mappers of the session, of the file processor and of the   *)
(* frame loop, in every state the session's and the processor's lifecycle  *)
(* and the page's source switch bring them to.                             *)
(***************************************************************************)
InitMap == SessInit /\ FileInit /\ ViewInit /\ probe = NULL

NextMap ==
  \/ initializeAwait
  \/ initializeGranted
  \/ start
  \/ stop
  \/ contextStateChange
  \/ \E points \in PointLists : getCustomFrequencyData(points)
  \/ \E bands \in 1..MaxBands : getNormalizedSpectrum(bands)
  \/ loadAudioFileAwait
  \/ loadAudioFileDecoded
  \/ loadAudioFileFailed
  \/ \E bands \in 1..MaxBands : fileGetNormalizedSpectrum(bands)
  \/ \E newSource \in {"microphone", "file"} : setAnalysisSource(newSource)
  \/ \E currentTime \in MapFrameTimes : animate(currentTime)

SpecMap == InitMap /\ [][NextMap]_vars

(***************************************************************************)
(* SpecHistory: the frame loop of the mounted component over the session's *)
(* lifecycle, with the mode toggled and the source switched.               *)
(***************************************************************************)
InitView == SessInit /\ FileAbsent /\ ViewInit /\ probe = NULL

NextHistory ==
  \/ initializeAwait
  \/ initializeGranted
  \/ start
  \/ stop
  \/ contextStateChange
  \/ \E newMode \in {"spectrum", "spectrogram"} : setVisualizationMode(newMode)
  \/ \E newSource \in {"microphone", "file"} : setAnalysisSource(newSource)
  \/ \E currentTime \in MapFrameTimes : animate(currentTime)

SpecHistory == InitView /\ [][NextHistory]_vars

(***************************************************************************)
(* SpecThrottle: the frame loop of the mounted component over the          *)
(* session's lifecycle, with the clock advancing from frame to frame and   *)
(* the source switched.                                                    *)
(***************************************************************************)
NextThrottle ==
  \/ initializeAwait
  \/ initializeGranted
  \/ start
  \/ stop
  \/ contextStateChange
  \/ \E newSource \in {"microphone", "file"} : setAnalysisSource(newSource)
  \/ \E currentTime \in FrameTimes : animate(currentTime)

SpecThrottle == InitView /\ [][NextThrottle]_vars

(***************************************************************************)
(* SpecFile: the file processor under the handlers of its component, from  *)
(* the mounting of the component on, over unmounts and later mounts.       *)
(***************************************************************************)
InitFile == SessInit /\ FileInit /\ ViewAbsent /\ probe = NULL

NextFile ==
  \/ handleFileChange
  \/ handleFileChangeNotAudio
  \/ handleFileChangeLoaded
  \/ handleFileChangeFailed
  \/ handlePlayPause
  \/ handleStop
  \/ updateProgress
  \/ \E bands \in 1..MaxBands : fileGetNormalizedSpectrum(bands)
  \/ unmount
  \/ mount
  \/ tick

SpecFile == InitFile /\ [][NextFile]_vars

(***************************************************************************)
(* SpecPitch: the pitch detector applied once to each probe.               *)
(***************************************************************************)
InitPitch ==
  SessInit /\ FileAbsent /\ ViewAbsent /\ \E p \in PitchProbes : probe = Some(p)

NextPitch == applyPitch

SpecPitch == InitPitch /\ [][NextPitch]_vars

(***************************************************************************)
(* Properties.                                                             *)
(***************************************************************************)
Active == isInitialized /\ isActive
\* Whether n is a power of two (1, 2, 4, ...), as C8 states it; the test of
\* setFFTSize itself is BitAnd(size, size - 1) = 0, which 0 passes too.
IsPowerOfTwo(n) == \E k \in 0..30 : n = Pow2(k)
InByteRange(x) == DLeq(DZero, x) /\ DLeq(x, DFromInt(255))

\* C1: getNormalizedSpectrum(bands), of the session and of the file
\* processor, returns exactly `bands` values in every state, whatever the
\* length of the raw spectrum.
C1_LengthIsBands ==
  lastOp.op \in {"getNormalizedSpectrum", "file.getNormalizedSpectrum"}
    => Len(lastOp.data) = lastOp.arg[1]

\* An active session mapped its 32-bin spectrum to 3 bands.
C1_Witness ==
  /\ lastOp.op = "getNormalizedSpectrum"
  /\ Active
  /\ lastOp.arg = <<3>>
  /\ Len(lastOp.bins) = 3
  /\ Len(Get(frequencyData)) # 3

\* C2: every intensity the mappers produce lies in [0, 255]: the values of
\* getNormalizedSpectrum (session and file processor), of
\* getCustomFrequencyData and of the frame loop.
C2_IntensitiesInByteRange ==
  /\ lastOp.op \in {"getNormalizedSpectrum", "file.getNormalizedSpectrum"}
       => \A k \in 1..Len(lastOp.data) : lastOp.data[k] \in 0..255
  /\ lastOp.op \in {"getCustomFrequencyData", "animate"}
       => \A k \in 1..Len(lastOp.data) : InByteRange(lastOp.data[k])

\* C3: while the session is not active, getNormalizedSpectrum(bands) returns
\* `bands` zeros and getCustomFrequencyData(points) one zero per point;
\* neither call ever throws.
C3_UnavailableGivesZeros ==
  /\ lastOp.op \in {"getNormalizedSpectrum", "getCustomFrequencyData"}
       => ~lastOp.threw
  /\ lastOp.op = "getNormalizedSpectrum" /\ ~Active
       => lastOp.data = Zeros(lastOp.arg[1])
  /\ lastOp.op = "getCustomFrequencyData" /\ ~Active
       => lastOp.data = [k \in 1..Len(lastOp.arg) |-> DZero]

\* A stopped session, holding a spectrum that is not all zeros, was asked for
\* three frequency points.
C3_Witness ==
  /\ lastOp.op = "getCustomFrequencyData"
  /\ isInitialized /\ ~isActive
  /\ Len(lastOp.arg) = 3
  /\ frequencyData # NULL
  /\ Get(frequencyData) # Zeros(Len(Get(frequencyData)))

\* C4: on a session that is not active getFrequencyData() and getTimeData()
\* return null and detectPitch() returns 0, without throwing and without
\* touching the buffers.
C4_InactivePollsReturnNothing ==
  [][ ~Active /\ lastOp'.op \in {"getFrequencyData", "getTimeData", "detectPitch"}
        => /\ ~lastOp'.threw
           /\ UNCHANGED <<frequencyData, timeData>>
           /\ lastOp'.op \in {"getFrequencyData", "getTimeData"}
                => lastOp'.null
           /\ lastOp'.op = "detectPitch" => lastOp'.data = DZero ]_vars

\* detectPitch() was called on a stopped session whose waveform buffer holds
\* a sampled wave.
C4_Witness ==
  /\ lastOp.op = "detectPitch"
  /\ isInitialized /\ ~isActive
  /\ timeData # NULL
  /\ Get(timeData) # Zeros(Len(Get(timeData)))
  /\ lastOp.data = DZero

\* C5: on an active session, detectPitch() of a silent waveform (every
\* sample 128) returns 0.
C5_SilenceHasNoPitch ==
  lastOp.op = "detectPitch" /\ Active
    /\ timeData = Some([i \in 1..Len(Get(timeData)) |-> 128])
    => lastOp.data = DZero

\* C6: for a sine of frequency f sampled at 44100 Hz into a buffer of at
\* least 2048 samples, the detected pitch is within 5% of f.
C6_SineWithinFivePercent ==
  lastOp.op = "pitchOf" /\ Get(probe).length >= 2048
    /\ Get(probe).harmonic >= 1
    => /\ DLeq(DFromInt(95 * Get(probe).harmonic), lastOp.data)
       /\ DLeq(lastOp.data, DFromInt(105 * Get(probe).harmonic))

\* C7: the frequency-to-bin mappings are monotone.  The session's bands take
\* bins in ascending order; the file processor never assigns a higher bin to
\* a lower band; getCustomFrequencyData and the frame loop never give a
\* larger frequency a smaller bin.
C7_MappingMonotone ==
  /\ lastOp.op = "getNormalizedSpectrum"
       => \A a, b \in 1..Len(lastOp.bins) :
            a <= b => lastOp.bins[a] <= lastOp.bins[b]
  /\ lastOp.op = "file.getNormalizedSpectrum"
       => \A a, b \in 1..Len(lastOp.bins) :
            a <= b /\ lastOp.bins[a] >= 0 => lastOp.bins[a] <= lastOp.bins[b]
  /\ lastOp.op = "getCustomFrequencyData"
       => \A a, b \in 1..Len(lastOp.bins) :
            lastOp.arg[a] <= lastOp.arg[b]
              => /\ lastOp.bins[a][1] <= lastOp.bins[b][1]
                 /\ lastOp.bins[a][2] <= lastOp.bins[b][2]
  /\ lastOp.op = "animate"
       => \A a, b \in 1..Len(lastOp.bins) :
            frequencyPoints[a] <= frequencyPoints[b]
              => lastOp.bins[a] <= lastOp.bins[b]

\* The session mapped a spectrum to bands that read distinct bins.
C7_Witness ==
  /\ lastOp.op = "getNormalizedSpectrum"
  /\ Len(lastOp.bins) = MaxBands
  /\ lastOp.bins[1] < lastOp.bins[MaxBands]

\* C8: setFFTSize(size) with a size that is not a power of two changes
\* neither the stored fftSize nor the analyser nor the buffers, and writes a
\* diagnostic.
C8_NonPowerOfTwoRejected ==
  [][ lastOp'.op = "setFFTSize" /\ ~IsPowerOfTwo(lastOp'.arg[1])
        => /\ UNCHANGED <<fftSize, analyser, frequencyData, timeData>>
           /\ ~lastOp'.alloc
           /\ lastOp'.diag ]_vars

\* C9: start() returns true and leaves the session active exactly when the
\* session is initialized; otherwise it returns false and isInitialized and
\* isActive stay false.
C9_StartNeedsInitialized ==
  [][ lastOp'.op = "start"
        => IF isInitialized
             THEN lastOp'.ok /\ isInitialized' /\ isActive'
             ELSE /\ ~lastOp'.ok
                  /\ ~isInitialized /\ ~isActive
                  /\ ~isInitialized' /\ ~isActive' ]_vars

\* start() succeeded.
C9_Witness ==
  lastOp.op = "start" /\ lastOp.ok /\ isInitialized /\ isActive

\* C10: stop() on an active session makes it inactive and keeps everything
\* else of the session (the context's suspension is requested); a later
\* start() makes it active again with the same analyser and buffers.
C10_StopKeepsSession ==
  [][ /\ Active /\ lastOp'.op = "stop"
        => /\ ~isActive' /\ isInitialized'
           /\ UNCHANGED <<fftSize, frequencyData, timeData, analyser,
                          mediaStream, source, pending>>
           /\ audioContext' # NULL
      /\ isInitialized /\ ~isActive /\ lastOp'.op = "start"
        => /\ isActive' /\ isInitialized' /\ lastOp'.ok /\ ~lastOp'.alloc
           /\ UNCHANGED <<fftSize, frequencyData, timeData, analyser,
                          mediaStream, source, pending>> ]_vars

\* The session was stopped while its buffers held data.
C10_Witness ==
  /\ lastOp.op = "stop"
  /\ isInitialized /\ ~isActive
  /\ frequencyData # NULL
  /\ Get(frequencyData) # Zeros(Len(Get(frequencyData)))
  /\ timeData # NULL
  /\ Len(Get(timeData)) = fftSize \div 2

\* C11: once dispose() has been called, every call returns its unavailable
\* value (start false, the polls null, detectPitch 0, getNormalizedSpectrum
\* zeros, getStatus false and false), none throws, and stop(), dispose() and
\* setFFTSize() change nothing of the session.
C11_DisposedGivesSentinels ==
  [][ disposal # "none" /\ disposal' # "none"
        => /\ lastOp'.op = "start" => ~lastOp'.ok
           /\ lastOp'.op \in {"getFrequencyData", "getTimeData"}
                => lastOp'.null
           /\ lastOp'.op = "detectPitch" => lastOp'.data = DZero
           /\ lastOp'.op = "getNormalizedSpectrum"
                => lastOp'.data = Zeros(lastOp'.arg[1])
           /\ lastOp'.op = "getStatus" => lastOp'.data = <<FALSE, FALSE>>
           /\ lastOp'.op \in {"start", "getFrequencyData", "getTimeData",
                              "detectPitch", "getNormalizedSpectrum",
                              "getStatus", "stop", "dispose", "setFFTSize"}
                => ~lastOp'.threw
           /\ lastOp'.op \in {"stop", "dispose", "setFFTSize"}
                => UNCHANGED sessVars ]_vars

\* C12: once dispose() has been called the session is never initialized or
\* active again.
C12_DisposedIsTerminal ==
  disposal # "none" => ~isInitialized /\ ~isActive

\* C13: initialize() does not throw; when it returns false it leaves
\* isInitialized as it was; when it returns true the session is initialized
\* with its analyser and both buffers allocated.
C13_InitializeSurfacesBoolean ==
  [][ lastOp'.op = "initialize"
        => /\ ~lastOp'.threw
           /\ ~lastOp'.ok => isInitialized' = isInitialized
           /\ lastOp'.ok
                => /\ isInitialized' /\ analyser' # NULL
                   /\ frequencyData' # NULL /\ timeData' # NULL
                   /\ Len(Get(frequencyData')) = frequencyBinCount(analyser')
                   /\ Len(Get(timeData')) = frequencyBinCount(analyser') ]_vars

\* initialize() returned false on a session that was never initialized.
C13_Witness ==
  /\ lastOp.op = "initialize" /\ ~lastOp.ok
  /\ ~isInitialized /\ disposal = "none"

\* C14: while the session is initialized both buffers are allocated and
\* have length fftSize / 2.
C14_BuffersMatchFFTSize ==
  isInitialized
    => /\ frequencyData # NULL /\ timeData # NULL
       /\ 2 * Len(Get(frequencyData)) = fftSize
       /\ 2 * Len(Get(timeData)) = fftSize

\* C15: an active session is initialized.
C15_ActiveImpliesInitialized == isActive => isInitialized

\* The session is active, and has been stopped and started again.
C15_Witness ==
  isActive /\ isInitialized /\ lastOp.op = "start" /\ lastOp.ok

\* round(f / binWidth) in exact arithmetic, for the frequency
\* f = 20 + (i / (bands - 1)) * (20000 - 20) of band i (bands >= 2) and
\* binWidth = sampleRate / 2 / binCount: with f / binWidth = a / b for
\* a = (20 * (bands - 1) + 19980 * i) * 2 * binCount and
\* b = (bands - 1) * sampleRate, the floor of (2 * a + b) / (2 * b).
exactBandBin(binCount, sampleRate, bands, i) ==
  (2 * (minDisplayFreq * (bands - 1)
          + (maxDisplayFreq - minDisplayFreq) * i) * 2 * binCount
     + (bands - 1) * sampleRate)
    \div (2 * (bands - 1) * sampleRate)

\* C16: in getNormalizedSpectrum on an active session, a band whose bin index
\* lies beyond the raw spectrum takes the value of the last bin (and one
\* below 0 the value of the first bin), not zero.
C16_OutOfRangeUsesBoundaryBin ==
  lastOp.op = "getNormalizedSpectrum" /\ Active
    => \A k \in 1..Len(lastOp.bins) :
         /\ lastOp.bins[k] >= Len(Get(frequencyData))
              => lastOp.data[k] = Get(frequencyData)[Len(Get(frequencyData))]
         /\ lastOp.bins[k] < 0 => lastOp.data[k] = Get(frequencyData)[1]

\* C17: getNormalizedSpectrum(1) on an active session returns the raw value
\* of the 20 Hz bin, raw[round(20 / binWidth)].
C17_SingleBandReadsTwentyHertz ==
  lastOp.op = "getNormalizedSpectrum" /\ Active /\ lastOp.arg = <<1>>
    => lastOp.data =
         << Get(frequencyData)[
              DRound(DDiv(DFromInt(minDisplayFreq),
                          freqPerBin(Get(audioContext).sampleRate,
                                     Len(Get(frequencyData))))) + 1] >>

\* C18: for bands >= 2 on an active session, band k of
\* getNormalizedSpectrum is the raw value at round(f_k / binWidth) whenever
\* that index is inside the raw spectrum; band 0 reads the 20 Hz bin.
C18_BandReadsRoundedBin ==
  lastOp.op = "getNormalizedSpectrum" /\ Active /\ lastOp.arg[1] >= 2
    => /\ \A k \in 1..lastOp.arg[1] :
            exactBandBin(Len(Get(frequencyData)),
                         Get(audioContext).sampleRate, lastOp.arg[1], k - 1)
              < Len(Get(frequencyData))
            => lastOp.data[k] =
                 Get(frequencyData)[
                   exactBandBin(Len(Get(frequencyData)),
                                Get(audioContext).sampleRate,
                                lastOp.arg[1], k - 1) + 1]
       /\ lastOp.data[1] =
            Get(frequencyData)[
              (2 * minDisplayFreq * 2 * Len(Get(frequencyData))
                 + Get(audioContext).sampleRate)
                \div (2 * Get(audioContext).sampleRate) + 1]

\* Three bands were read from a ramp at 44100 Hz: the middle band, 10010 Hz,
\* reads a bin in the middle of the spectrum.
C18_Witness ==
  /\ lastOp.op = "getNormalizedSpectrum" /\ Active
  /\ lastOp.arg = <<3>>
  /\ Get(audioContext).sampleRate = 44100
  /\ lastOp.bins[2] > 0 /\ lastOp.bins[2] < Len(Get(frequencyData))
  /\ lastOp.data[2] = ((lastOp.bins[2] * 8) + 3) % 256
  /\ lastOp.data[2] # lastOp.data[1]

\* The correlation of lines 176-179 in exact arithmetic, and the first lag
\* of lo..hi that attains the maximum, as <<correlation, lag>>.
exactCorrelation(td, lag) == correlationLoop(td, lag, 0, Len(td) - lag - 1)

RECURSIVE exactPeak(_, _, _)
exactPeak(td, lo, hi) ==
  IF lo = hi THEN <<exactCorrelation(td, lo), lo>>
  ELSE LET left == exactPeak(td, lo, (lo + hi) \div 2)
           right == exactPeak(td, ((lo + hi) \div 2) + 1, hi)
       IN IF right[1] > left[1] THEN right ELSE left

\* sampleRate / L for the smallest lag L of floor(sampleRate / 1000)..N - 1
\* with the largest correlation; 0 when the range is empty, no correlation
\* exceeds -1 or L is 0.
pitchOfPeak(peak, sampleRate) ==
  IF peak[1] <= -1 \/ peak[2] = 0 THEN DZero
  ELSE DDiv(DFromInt(sampleRate), DFromInt(peak[2]))

statedPitch(td, sampleRate) ==
  IF sampleRate \div 1000 > Len(td) - 1 THEN DZero
  ELSE pitchOfPeak(exactPeak(td, sampleRate \div 1000, Len(td) - 1),
                   sampleRate)

\* C19: detectPitch returns sampleRate / L for the smallest lag L in
\* floor(sampleRate / 1000)..N - 1 that attains the maximum of the
\* correlation sum, and 0 when there is no such lag.
C19_PitchIsFirstMaximum ==
  lastOp.op = "pitchOf"
    => lastOp.data = statedPitch(probeWave(Get(probe)), probeRate(Get(probe)))

\* C20: detectPitch never returns more than 1000 Hz.
C20_PitchAtMostThousand ==
  lastOp.op = "pitchOf" => DLeq(lastOp.data, DFromInt(1000))

\* C21: a frame calls detectPitch() exactly when the session is Active and
\* more than 100 ms have passed since the frame that last called it (since
\* time 0 before the first call); a frame that does not call it, or whose
\* call returns 0, leaves the displayed pitch unchanged.
C21_PitchThrottled ==
  [][ lastOp'.op = "animate"
        => /\ lastOp'.detected # NULL
                <=> /\ Active
                    /\ lastOp'.arg[1] - pitchDetectedAt
                         > pitchDetectionInterval
           /\ lastOp'.detected = NULL => pitch' = pitch
           /\ lastOp'.detected = Some(DZero) => pitch' = pitch ]_vars

\* C22: the spectrogram history always holds HistoryLength snapshots; a
\* frame of an Active session in spectrogram mode moves every snapshot one
\* place towards the front, dropping the first, and puts the new data last;
\* every other step leaves the history as it is.
C22_HistoryIsFixedQueue ==
  [][ /\ Len(spectrogramHistory') = HistoryLength
      /\ IF lastOp'.op = "animate" /\ Active /\ mode = "spectrogram"
           THEN /\ \A k \in 1..(HistoryLength - 1) :
                     spectrogramHistory'[k] = spectrogramHistory[k + 1]
                /\ spectrogramHistory'[HistoryLength] = lastOp'.data
           ELSE spectrogramHistory' = spectrogramHistory ]_vars

\* The value C23 states for frequency point k when the 10000 bands are read
\* from the spectrum freqData: with i the index of the point, the largest of
\* band i and 0.8 times the bands next to it below 2000 Hz, band i from
\* 2000 Hz on.
statedBand(freqData, sampleRate, i) ==
  normalizedBand(freqData, sampleRate, numRawDataBands, i)

statedValue(freqData, sampleRate, k) ==
  IF frequencyPoints[k] < 2000
    THEN DMax(DFromInt(statedBand(freqData, sampleRate, displayBins[k])),
              DMax(attenuated(statedBand(freqData, sampleRate,
                                         Max(0, displayBins[k] - 1))),
                   attenuated(statedBand(freqData, sampleRate,
                                         Min(numRawDataBands - 1,
                                             displayBins[k] + 1)))))
    ELSE DFromInt(statedBand(freqData, sampleRate, displayBins[k]))

statedDisplayTable ==
  [freqData \in SpectrumDomain, sampleRate \in SampleRates |->
     [k \in 1..Len(frequencyPoints) |->
        statedValue(freqData, sampleRate, k)]]

\* The 10000-band value at the index of each frequency point.
primaryBandTable ==
  [freqData \in SpectrumDomain, sampleRate \in SampleRates |->
     [k \in 1..Len(frequencyPoints) |->
        statedBand(freqData, sampleRate, displayBins[k])]]

\* C23: a frame that read a spectrum displays, for every frequency point
\* (all have an index within the 10000 bands), the stated value: never less
\* than the band at the index, and exactly that band from 2000 Hz on.
C23_LowPointsTakeNeighbourMaximum ==
  lastOp.op = "animate" /\ ~lastOp.null /\ frequencyAvailable
      /\ audioContext # NULL
    => /\ \A k \in 1..Len(frequencyPoints) :
            displayBins[k] >= 0 /\ displayBins[k] < numRawDataBands
       /\ lastOp.data
            = statedDisplayTable[Get(frequencyData),
                                 Get(audioContext).sampleRate]
       /\ \A k \in 1..Len(frequencyPoints) :
            LET band == primaryBandTable[Get(frequencyData),
                                         Get(audioContext).sampleRate][k]
            IN IF frequencyPoints[k] < 2000
                 THEN DLeq(DFromInt(band), lastOp.data[k])
                 ELSE lastOp.data[k] = DFromInt(band)

\* A frame displays, for a point below 2000 Hz, more than the band at its
\* index: 0.8 times a neighbouring band is larger.
C23_Witness ==
  /\ lastOp.op = "animate" /\ ~lastOp.null /\ frequencyAvailable
  /\ audioContext # NULL
  /\ \E k \in 1..Len(frequencyPoints) :
       /\ frequencyPoints[k] < 2000
       /\ DLess(DFromInt(primaryBandTable[Get(frequencyData),
                                           Get(audioContext).sampleRate][k]),
                lastOp.data[k])

\* The value of lines 241-264 for a target frequency below 1000 Hz whose
\* bins lo and up are in range: interpolated, then averaged with the
\* neighbouring bins, before any boost.
averagedBetween(freqData, lo, up, exact, targetFreq) ==
  weightedAverage(freqData, lo, up, lowRange(targetFreq),
                  interpolate(freqData[lo + 1], freqData[up + 1],
                              DSub(exact, DFromInt(lo))))

averagedAt(freqData, exact, targetFreq) ==
  averagedBetween(freqData, DFloor(exact), DCeil(exact), exact, targetFreq)

averaged(freqData, sampleRate, targetFreq) ==
  averagedAt(freqData, exactBinIndex(Len(freqData), sampleRate, targetFreq),
             targetFreq)

\* The interpolated value of line 241 alone.
interpolatedAt(freqData, exact) ==
  interpolate(freqData[DFloor(exact) + 1], freqData[DCeil(exact) + 1],
              DSub(exact, DFromInt(DFloor(exact))))

\* C24: for the points 20, 100 and 5000 Hz (all between two bins of the
\* spectrum), the 20 Hz value is the averaged value times 2.0 clamped to 255,
\* the 100 Hz value is the averaged value raised by a multiplier (it is
\* larger than a positive averaged value below 255, and at most 255), and
\* the 5000 Hz value is the interpolated value with no multiplier.
C24_BoostFromTwoToOnePointTwo ==
  lastOp.op = "getCustomFrequencyData" /\ lastOp.arg = <<20, 100, 5000>>
      /\ Len(lastOp.bins) = 3
      /\ (\A k \in 1..3 : lastOp.bins[k][2] < Len(Get(frequencyData)))
    => /\ lastOp.data[1]
            = DMin(DFromInt(255),
                   DMul(averaged(Get(frequencyData),
                                 Get(audioContext).sampleRate, 20),
                        DFromInt(2)))
       /\ DLeq(lastOp.data[2], DFromInt(255))
       /\ LET average == averaged(Get(frequencyData),
                                  Get(audioContext).sampleRate, 100)
          IN DLess(DZero, average) /\ DLess(average, DFromInt(255))
               => DLess(average, lastOp.data[2])
       /\ lastOp.data[3]
            = interpolatedAt(Get(frequencyData),
                             exactBinIndex(Len(Get(frequencyData)),
                                           Get(audioContext).sampleRate, 5000))

\* The bin C25 states for band k of `bands`: round(centerFreq / binWidth)
\* clamped to 0..binCount - 1, for centerFreq = 20 * 1000^((k + 0.5) / bands)
\* and binWidth = sampleRate / size.  In integers: the number of bins j in
\* 1..binCount - 1 with j - 1/2 <= centerFreq / binWidth, which is
\* ((2j - 1) * sampleRate)^(2 * bands) <= (40 * size)^(2 * bands) * 1000^(2k + 1).
statedFileBinReached(size, sampleRate, bands, k, j) ==
  BigCmp(BigPow(BigFromInt((2 * j - 1) * sampleRate), 2 * bands),
         BigMul(BigPow(BigFromInt(40 * size), 2 * bands),
                BigPow(BigFromInt(1000), 2 * k + 1))) <= 0

statedFileBin(size, sampleRate, bands, k) ==
  Cardinality({ j \in 1..(size \div 2 - 1) :
                  statedFileBinReached(size, sampleRate, bands, k, j) })

\* C25: the file processor's band k is the byte at the stated bin of the
\* spectrum it read; when every byte read is nonzero, no band is zero.
C25_LogBandReadsCentreBin ==
  lastOp.op = "file.getNormalizedSpectrum" /\ Len(lastOp.read) > 0
    => /\ \A k \in 1..lastOp.arg[1] :
            lastOp.data[k]
              = lastOp.read[statedFileBin(fileFFTSize,
                                          Get(fileAudioContext).sampleRate,
                                          lastOp.arg[1], k - 1) + 1]
       /\ (\A i \in 1..Len(lastOp.read) : lastOp.read[i] # 0)
            => \A k \in 1..lastOp.arg[1] : lastOp.data[k] # 0

\* C26: when dispose() ran while initialize() calls were suspended at their
\* await (no step of initialize() has run since the dispose() and calls are
\* pending), the completion of such a call leaves the session uninitialized
\* and without stream, context, analyser and buffers.
C26_PendingInitializeStaysDisposed ==
  [][ disposal = "disposed" /\ pending > 0 /\ pending' < pending
        => /\ ~isInitialized'
           /\ mediaStream' = NULL
           /\ audioContext' = NULL
           /\ analyser' = NULL
           /\ frequencyData' = NULL
           /\ timeData' = NULL ]_vars

\* C27: no call overwrites its reference to an open stream or context
\* without releasing it (so every resource acquired is the one referenced
\* or has been released, and at most one of each is open); an initialize()
\* that returned false leaves open nothing that it acquired; after
\* dispose() the session references no stream and no context.
C27_NoProviderResourceLeaks ==
  /\ lastOp.dropped = {}
  /\ lastOp.op = "initialize" /\ ~lastOp.ok
       => lastOp.opened = {}
  /\ lastOp.op = "dispose" => held = {}

\* Whether the source node is producing sound: it was started at offset
\* and has not reached the end of its buffer.
sourcePlaying ==
  /\ fileSource # NULL
  /\ Get(fileSource).offset + (contextTime - Get(fileSource).startedAt)
       < Get(fileSource).buffer.duration

\* getPlayingStatus(), lines 130-132.
getPlayingStatus == isPlaying

\* C28: a play() starts the new source at the position the processor holds
\* as paused position (the one pause() saved; 0 after stop() and at the
\* first play), and getCurrentTime() continues from it.
C28_PlayResumesFromPausedPosition ==
  [][lastOp'.op = "handlePlayPause" /\ lastOp'.arg = <<"play">>
       => /\ fileSource' # NULL
          /\ Get(fileSource').offset = pauseTime
          /\ getCurrentTime' = pauseTime]_vars

\* C30: getPlayingStatus() is true exactly while a source is playing, and
\* after every play/pause/stop handler and every progress update the
\* component's isPlaying equals it.
C30_PlayingStatusTracksPlayback ==
  /\ getPlayingStatus <=> sourcePlaying
  /\ lastOp.op \in {"handlePlayPause", "handleStop", "updateProgress"}
       => uiIsPlaying = getPlayingStatus

\* Whether the frequencies x and y (doubles) differ by at most one band
\* width of the 10000-band array, taken as the larger of the two widths in
\* use: the 22050/10000 Hz of the frame loop.
withinBandWidth(x, y) ==
  /\ DLeq(x, DAdd(y, binWidth(numRawDataBands)))
  /\ DLeq(y, DAdd(x, binWidth(numRawDataBands)))

\* The target frequency getNormalizedSpectrum(10000) gives the band that the
\* frame loop reads for each frequency point.
bandFrequencyTable ==
  [k \in 1..Len(frequencyPoints) |->
     freqForBand(numRawDataBands, displayBins[k])]

\* C29: in a frame that read the 10000 bands, the index computed for every
\* frequency point is within [0, 10000) and designates a band whose own
\* target frequency equals the point's frequency to within one band width.
C29_IndexDesignatesBandOfPoint ==
  lastOp.op = "animate" /\ ~lastOp.null
    => \A k \in 1..Len(frequencyPoints) :
         /\ lastOp.bins[k] >= 0
         /\ lastOp.bins[k] < numRawDataBands
         /\ lastOp.bins[k] = displayBins[k]
         /\ withinBandWidth(bandFrequencyTable[k],
                            DFromInt(frequencyPoints[k]))

\* Every index of a frame is within the array.
frameIndicesWithinArray ==
  lastOp.op = "animate" /\ ~lastOp.null
    => \A k \in 1..Len(frequencyPoints) :
         lastOp.bins[k] >= 0 /\ lastOp.bins[k] < numRawDataBands

\* The frequency points whose band lies within one band width of them.
pointsWithinBandWidth ==
  {frequencyPoints[k] : k \in {j \in 1..Len(frequencyPoints) :
     withinBandWidth(bandFrequencyTable[j], DFromInt(frequencyPoints[j]))}}
  = {190, 220}

====
